---- MODULE Spec2Model ----
(****************************************************************************)
(* State-machine model of the Sales-Force (ambivare_erp) repository:        *)
(*   billing   - Invoice / InvoiceItem / Payment (SpecBilling,              *)
(*               SpecInvoicing)                                             *)
(*   numbering - concurrent document creation (SpecNumbering)               *)
(*   sales     - Lead / Customer / Deal and the sales API (SpecSales,       *)
(*               SpecConversion, SpecAutoAssign, SpecBulkAssign)            *)
(*   requests  - subscription and usage middleware (SpecMiddleware)         *)
(*   accounts  - password reset, role permissions (SpecAccounts,            *)
(*               SpecAccountsConcurrent, SpecPermissions)                   *)
(*   security  - RateLimitMiddleware (SpecRateLimit,                        *)
(*               SpecRateLimitConcurrent)                                   *)
(*   quotes    - Quotation / QuotationItem, conversion (SpecQuotations)     *)
(*   deals     - stage updates and closed_date (SpecDeals)                  *)
(*   tasks     - Task recurrence, Reminder (SpecTasks, SpecReminders)       *)
(* Money is kept in integer cents (DecimalField, decimal_places=2); values  *)
(* computed in memory before a save are kept in 1/10000 units and rounded   *)
(* to cents when the row is written.                                        *)
(****************************************************************************)
EXTENDS Integers, Sequences, FiniteSets, TLC

VARIABLES
    invoices,      \* billing.Invoice rows: id -> record
    items,         \* billing.InvoiceItem rows: id -> record
    payments,      \* billing.Payment rows: pk -> record
    now,           \* logical clock behind auto_now_add created_at
    op,            \* the last operation and its outcome (id: the row a property asks about)
    procs,         \* concurrent save() calls in flight (numbering)
    leads,         \* sales.Lead rows
    customers,     \* sales.Customer rows
    deals,         \* sales.Deal rows
    users,         \* accounts.User rows: name -> [role, reports_to]
    tenant,        \* tenants.Tenant row of the business tenant
    subscription,  \* billing.Subscription row of that tenant
    userRows,      \* number of accounts.User rows in the tenant schema
    leadRows,      \* number of sales.Lead rows in the tenant schema
    response,      \* the last request and the response it got
    passwords,     \* accounts.User: email -> password set by set_password
    resetTokens,   \* accounts.PasswordResetToken rows: id -> record
    mailJobs,      \* token ids handed to send_password_reset_email.delay
    rateCache,     \* RateLimitMiddleware.cache: key -> list of timestamps
    ratePassed,    \* key -> timestamps of the requests the rate limiter let through
    rateProcs,     \* requests inside RateLimitMiddleware.process_request
    quotations,    \* billing.Quotation rows: id -> record
    quotationItems, \* billing.QuotationItem rows: id -> record
    tasks,         \* tasks.Task rows: id -> record
    reminders      \* tasks.Reminder rows: id -> record

accountVars == <<passwords, resetTokens, mailJobs>>

\* the variables of the parts added after billing, sales and requests
rateVars == <<rateCache, ratePassed, rateProcs>>
quoteVars == <<quotations, quotationItems>>
taskVars == <<tasks, reminders>>
extVars == <<accountVars, rateVars, quoteVars, taskVars>>

\* what the actions of one part leave alone among the other parts
exceptAccounts == <<rateVars, quoteVars, taskVars>>
exceptRate == <<accountVars, quoteVars, taskVars>>
exceptQuotes == <<accountVars, rateVars, taskVars>>
exceptTasks == <<accountVars, rateVars, quoteVars>>

vars == <<invoices, items, payments, now, op, procs, leads, customers, deals,
          users, tenant, subscription, userRows, leadRows, response, extVars>>

billingVars == <<invoices, items, payments>>
salesVars == <<leads, customers, deals, users>>
requestVars == <<tenant, subscription, userRows, leadRows, response>>

None == "None"
NoRow == 0     \* an empty query result / a null key (row ids start at 1)
Empty == [k \in {} |-> None]     \* a table with no rows
NoOp == [name |-> "init", id |-> 0, status |-> 0, detail |-> ""]

\* ------------------------------------------------------------------------
\* Bounds of the model
\* ------------------------------------------------------------------------
MaxInvoices == 2
MaxItems == 2
MaxPayments == 1
MaxCustomers == 2
MaxLeads == 2
MaxDeals == 2
MaxUserRows == 6
MaxLeadRows == 3
NumProcs == 2
MaxTokens == 2
TickHours == 12
MaxHours == 36
TickSeconds == 150
MaxSeconds == 450
MaxPassed == 6
MaxQuotations == 1
MaxQuotationItems == 2
MaxSaves == 5
MaxTasks == 5
MaxRootTasks == 1
MaxReminders == 2

\* ------------------------------------------------------------------------
\* Strings as sequences of characters; int(), str.split, format(":06d")
\* ------------------------------------------------------------------------
DigitChars == <<"0", "1", "2", "3", "4", "5", "6", "7", "8", "9">>

IsDigit(c) == \E d \in 1..10 : DigitChars[d] = c

DigitVal(c) == (CHOOSE d \in 1..10 : DigitChars[d] = c) - 1

RECURSIVE Digits(_)
Digits(n) ==
    IF n < 10 THEN <<DigitChars[n + 1]>>
    ELSE Digits(n \div 10) \o <<DigitChars[(n % 10) + 1]>>

RECURSIVE ZeroPad(_, _)
ZeroPad(s, width) ==
    IF Len(s) >= width THEN s ELSE ZeroPad(<<"0">> \o s, width)

RECURSIVE DigitsValue(_)
DigitsValue(s) ==
    IF Len(s) = 0 THEN 0
    ELSE 10 * DigitsValue(SubSeq(s, 1, Len(s) - 1)) + DigitVal(s[Len(s)])

\* int(s): ValueError unless s is a non-empty run of digits
ParseInt(s) ==
    IF Len(s) > 0 /\ \A k \in 1..Len(s) : IsDigit(s[k])
    THEN [ok |-> TRUE, val |-> DigitsValue(s)]
    ELSE [ok |-> FALSE, val |-> 0]

\* s.split(sep): the segments of s between occurrences of sep
RECURSIVE Split(_, _)
Split(s, sep) ==
    IF \A k \in 1..Len(s) : s[k] # sep THEN <<s>>
    ELSE LET k == CHOOSE j \in 1..Len(s) :
                      s[j] = sep /\ \A m \in 1..(j - 1) : s[m] # sep
         IN <<SubSeq(s, 1, k - 1)>> \o Split(SubSeq(s, k + 1, Len(s)), sep)

StartsWith(s, prefix) ==
    Len(prefix) <= Len(s) /\ SubSeq(s, 1, Len(prefix)) = prefix

\* str.strip(): s without its leading and trailing blanks
RECURSIVE Strip(_)
Strip(s) ==
    IF Len(s) = 0 THEN s
    ELSE IF s[1] = " " THEN Strip(SubSeq(s, 2, Len(s)))
    ELSE IF s[Len(s)] = " " THEN Strip(SubSeq(s, 1, Len(s) - 1))
    ELSE s

\* ------------------------------------------------------------------------
\* Decimal arithmetic
\* ------------------------------------------------------------------------
\* quantize to a multiple of d, ROUND_HALF_EVEN
RoundDiv(n, d) ==
    LET a == IF n < 0 THEN -n ELSE n
        q == a \div d
        r == a % d
        up == IF 2 * r > d \/ (2 * r = d /\ q % 2 = 1) THEN q + 1 ELSE q
    IN IF n < 0 THEN -up ELSE up

\* a value in 1/10000 units written to a decimal_places=2 column (cents)
ToCents(x4) == RoundDiv(x4, 100)

Min(a, b) == IF a <= b THEN a ELSE b

RECURSIVE SumOver(_, _, _)
SumOver(rows, ids, field) ==
    IF ids = {} THEN 0
    ELSE LET k == CHOOSE j \in ids : TRUE
         IN rows[k][field] + SumOver(rows, ids \ {k}, field)

\* ------------------------------------------------------------------------
\* billing.InvoiceItem
\* ------------------------------------------------------------------------
\* line item inputs: quantity (whole), unit_price (cents), percentages (whole)
ItemInputs ==
    { [quantity |-> 2, unit_price |-> 10000, discount_percentage |-> 10, tax_rate |-> 18],
      [quantity |-> 1, unit_price |-> 5000, discount_percentage |-> 0, tax_rate |-> 18],
      [quantity |-> 1, unit_price |-> 3300, discount_percentage |-> 10, tax_rate |-> 18] }

\* InvoiceItem.save: the amounts computed in memory (1/10000 units) and the
\* row as written
InvoiceItemSave(inv, in) ==
    LET subtotal4 == in.quantity * in.unit_price * 100
        discount4 == (subtotal4 * in.discount_percentage) \div 100
        taxable4 == subtotal4 - discount4
        tax4 == (taxable4 * in.tax_rate) \div 100
        total4 == taxable4 + tax4
    IN [invoice |-> inv,
        quantity |-> in.quantity,
        unit_price |-> in.unit_price,
        discount_percentage |-> in.discount_percentage,
        tax_rate |-> in.tax_rate,
        discount_amount |-> ToCents(discount4),
        tax_amount |-> ToCents(tax4),
        total |-> ToCents(total4)]

ItemsOf(inv) == {k \in DOMAIN items : items[k].invoice = inv}

\* ------------------------------------------------------------------------
\* billing.Invoice
\* ------------------------------------------------------------------------
INV == <<"I", "N", "V">>
FirstInvoiceNumber == 1001

\* the row QuerySet.order_by('-created_at').first() returns, or NoRow
LatestOf(rows, ids) ==
    IF ids = {} THEN NoRow
    ELSE CHOOSE k \in ids : \A j \in ids : rows[j].created_at <= rows[k].created_at

\* number generation that reuses the last number instead of incrementing it
NextInvoiceNumberNoIncrement(rows) ==
    LET prefixed == {k \in DOMAIN rows : StartsWith(rows[k].invoice_number, INV)}
        last_invoice == LatestOf(rows, prefixed)
        parts == Split(rows[last_invoice].invoice_number, "-")
        last_num == ParseInt(parts[Len(parts)])
        new_num == IF last_invoice = NoRow THEN FirstInvoiceNumber
                   ELSE IF last_num.ok THEN last_num.val
                   ELSE FirstInvoiceNumber
    IN INV \o <<"-">> \o ZeroPad(Digits(new_num), 6)

\* Invoice.save, number generation: the number given to a new invoice when
\* the rows visible to the query are `rows`
NextInvoiceNumber(rows) ==
    LET prefixed == {k \in DOMAIN rows : StartsWith(rows[k].invoice_number, INV)}
        last_invoice == LatestOf(rows, prefixed)
        parts == Split(rows[last_invoice].invoice_number, "-")
        last_num == ParseInt(parts[Len(parts)])
        new_num == IF last_invoice = NoRow THEN FirstInvoiceNumber
                   ELSE IF last_num.ok THEN last_num.val + 1
                   ELSE FirstInvoiceNumber
    IN INV \o <<"-">> \o ZeroPad(Digits(new_num), 6)

IsOverdue(inv) ==
    inv.status \notin {"paid", "cancelled", "refunded"} /\ inv.due_passed

\* Invoice.calculate_totals on the loaded object inv, whose items are the
\* rows itemIds of the item table `rows`; the result is the row as a
\* following save() writes it
InvoiceTotals(rows, inv, itemIds) ==
    LET subtotal == SumOver(rows, itemIds, "total")
        discount4 == IF inv.discount_type = "fixed"
                     THEN Min(inv.discount_value, subtotal) * 100
                     ELSE subtotal * inv.discount_value
        taxable4 == subtotal * 100 - discount4
        tax_amount == SumOver(rows, itemIds, "tax_amount")
        total4 == taxable4 + tax_amount * 100
        due4 == total4 - inv.amount_paid * 100
        status == IF inv.amount_paid * 100 >= total4 THEN "paid"
                  ELSE IF inv.amount_paid > 0 THEN "partial"
                  ELSE IF IsOverdue(inv) /\ inv.status \notin {"draft", "cancelled"}
                       THEN "overdue"
                  ELSE inv.status
    IN [inv EXCEPT !.subtotal = subtotal,
                   !.discount_amount = ToCents(discount4),
                   !.tax_amount = tax_amount,
                   !.total_amount = ToCents(total4),
                   !.amount_due = ToCents(due4),
                   !.status = status]

\* Invoice.calculate_totals against the stored line items
CalculateTotals(inv, itemIds) == InvoiceTotals(items, inv, itemIds)

\* the invoices the callers create: discount, starting status, and whether
\* due_date lies before today
InvoiceInputs ==
    { [type |-> "percentage", value |-> 0, status |-> "draft", due_passed |-> FALSE],
      [type |-> "percentage", value |-> 10, status |-> "sent", due_passed |-> TRUE],
      [type |-> "fixed", value |-> 1000, status |-> "sent", due_passed |-> FALSE] }

\* a new Invoice as its field defaults and the caller's arguments leave it
NewInvoice(in) ==
    [invoice_number |-> <<>>, created_at |-> 0, status |-> in.status, quotation |-> NoRow,
     subtotal |-> 0, discount_type |-> in.type, discount_value |-> in.value,
     discount_amount |-> 0, tax_amount |-> 0, total_amount |-> 0,
     amount_paid |-> 0, amount_due |-> 0, due_passed |-> in.due_passed]

\* Invoice.save of a new invoice with no explicit invoice_number
InvoiceCreate(in) ==
    /\ Cardinality(DOMAIN invoices) < MaxInvoices
    /\ LET id == Cardinality(DOMAIN invoices) + 1
           row == [NewInvoice(in) EXCEPT
                      !.invoice_number = NextInvoiceNumber(invoices),
                      !.created_at = now + 1]
       IN /\ invoices' = (id :> row) @@ invoices
          /\ op' = [name |-> "invoice_create", id |-> id, status |-> 0, detail |-> ""]
    /\ now' = now + 1
    /\ UNCHANGED <<items, payments, procs, salesVars, requestVars, extVars>>

\* InvoiceItem.save of a new line item of invoice inv
InvoiceItemCreate(inv, in) ==
    /\ inv \in DOMAIN invoices
    /\ Cardinality(DOMAIN items) < MaxItems
    /\ LET id == Cardinality(DOMAIN items) + 1
       IN /\ items' = (id :> InvoiceItemSave(inv, in)) @@ items
          /\ op' = [name |-> "item_create", id |-> id, status |-> 0, detail |-> ""]
    /\ UNCHANGED <<invoices, payments, now, procs, salesVars, requestVars, extVars>>

\* a caller's invoice.calculate_totals(); invoice.save()
InvoiceRecalculate(inv) ==
    /\ inv \in DOMAIN invoices
    /\ invoices' = [invoices EXCEPT ![inv] = CalculateTotals(invoices[inv], ItemsOf(inv))]
    /\ op' = [name |-> "calculate_totals", id |-> inv, status |-> 0, detail |-> ""]
    /\ UNCHANGED <<items, payments, now, procs, salesVars, requestVars, extVars>>

\* ------------------------------------------------------------------------
\* billing.Payment
\* ------------------------------------------------------------------------
PaymentAmounts == {10000, 31280}

\* Payment(invoice=..., amount=...): the id field's default (uuid.uuid4) is
\* evaluated when the object is constructed, before any save
NewPayment(uuid, inv, amount) ==
    [pk |-> uuid, invoice |-> inv, amount |-> amount, saved |-> FALSE]

\* Payment.save of the object pay: the payments and invoices tables after it
PaymentSave(pay) ==
    LET is_new == pay.pk = NoRow
        inv == invoices[pay.invoice]
        paid == [inv EXCEPT !.amount_paid = inv.amount_paid + pay.amount]
    IN [payments |-> (pay.pk :> [pay EXCEPT !.saved = TRUE]) @@
                     [k \in DOMAIN payments \ {pay.pk} |-> payments[k]],
        invoices |-> IF is_new
                     THEN [invoices EXCEPT ![pay.invoice] =
                               CalculateTotals(paid, ItemsOf(pay.invoice))]
                     ELSE invoices]

\* the first save of a new Payment against invoice inv
PaymentCreate(inv, amount) ==
    /\ inv \in DOMAIN invoices
    /\ Cardinality(DOMAIN payments) < MaxPayments
    /\ LET uuid == Cardinality(DOMAIN payments) + 1
           after == PaymentSave(NewPayment(uuid, inv, amount))
       IN /\ payments' = after.payments
          /\ invoices' = after.invoices
          /\ op' = [name |-> "payment_create", id |-> uuid, status |-> 0, detail |-> ""]
    /\ UNCHANGED <<items, now, procs, salesVars, requestVars, extVars>>

\* a later save of an existing Payment (an edit)
PaymentEdit(pk) ==
    /\ pk \in DOMAIN payments
    /\ LET after == PaymentSave(payments[pk])
       IN /\ payments' = after.payments
          /\ invoices' = after.invoices
    /\ op' = [name |-> "payment_edit", id |-> pk, status |-> 0, detail |-> ""]
    /\ UNCHANGED <<items, now, procs, salesVars, requestVars, extVars>>


\* ------------------------------------------------------------------------
\* sales.Customer
\* ------------------------------------------------------------------------
CUST == <<"C", "U", "S", "T">>

\* Customer.save, code generation: the customer_code given to a new customer
\* when the rows visible to the query are `rows`
NextCustomerCode(rows) ==
    LET last_customer == LatestOf(rows, DOMAIN rows)
        parts == Split(rows[last_customer].customer_code, "-")
        last_num == IF Len(parts) >= 2 THEN ParseInt(parts[2])
                    ELSE [ok |-> FALSE, val |-> 0]
    IN IF last_customer # NoRow /\ Len(rows[last_customer].customer_code) > 0
       THEN IF last_num.ok
            THEN CUST \o <<"-">> \o ZeroPad(Digits(last_num.val + 1), 5)
            ELSE CUST \o <<"-", "0", "0", "0", "0", "1">>
       ELSE CUST \o <<"-", "0", "0", "0", "0", "1">>

\* a Customer object with the given contact fields, before its first save
NewCustomer(c) ==
    [customer_code |-> <<>>, created_at |-> 0,
     first_name |-> c.first_name, last_name |-> c.last_name,
     email |-> c.email, phone |-> c.phone,
     company_name |-> c.company_name, billing_address |-> c.billing_address,
     lead_source |-> c.lead_source, assigned_to |-> c.assigned_to,
     created_by |-> c.created_by]

\* the contact data a caller posts to the customer endpoint
DirectCustomer ==
    [first_name |-> "Ann", last_name |-> "Lee", email |-> "ann@x.io",
     phone |-> "100", company_name |-> "Acme", billing_address |-> "1 Main St",
     lead_source |-> "", assigned_to |-> None, created_by |-> None]


\* ------------------------------------------------------------------------
\* accounts.User roles and tenants.Tenant limits
\* ------------------------------------------------------------------------
UserNames == {"M", "A", "B", "C", "D"}

IsTenantAdmin(u) == users[u].role \in {"super_admin", "admin"}

IsManager(u) == users[u].role \in {"super_admin", "admin", "manager"}

CanAddUsers(t) == t.max_users = -1 \/ t.current_users < t.max_users

CanAddLeads(t) == t.max_leads = -1 \/ t.current_leads < t.max_leads

\* ------------------------------------------------------------------------
\* sales.Deal
\* ------------------------------------------------------------------------
DEAL == <<"D", "E", "A", "L">>

\* closed_date of a deal that was never closed (NULL); every clock reading a
\* save can stamp is at least 1
NoDate == 0

STAGE_CHOICES ==
    {"prospect", "qualification", "proposal", "negotiation", "closed_won", "closed_lost"}

ClosedStages == {"closed_won", "closed_lost"}

\* Deal.lost_reason is a varchar of this length
LostReasonMaxLength == 200

\* Deal.save, number generation
NextDealNumber(rows) ==
    LET last_deal == LatestOf(rows, DOMAIN rows)
        parts == Split(rows[last_deal].deal_number, "-")
        last_num == IF Len(parts) >= 2 THEN ParseInt(parts[2])
                    ELSE [ok |-> FALSE, val |-> 0]
    IN IF last_deal # NoRow /\ Len(rows[last_deal].deal_number) > 0
       THEN IF last_num.ok
            THEN DEAL \o <<"-">> \o ZeroPad(Digits(last_num.val + 1), 5)
            ELSE DEAL \o <<"-", "0", "0", "0", "0", "1">>
       ELSE DEAL \o <<"-", "0", "0", "0", "0", "1">>

\* Deal.objects.create(...): the deals table after it, or a failure when a
\* NOT NULL or unique constraint rejects the row
DealInsert(lead, customer, title, has_close_date, assigned_to, user) ==
    LET number == NextDealNumber(deals)
        row == [deal_number |-> number, created_at |-> now + 1, title |-> title,
                lead |-> lead, customer |-> customer, stage |-> "prospect",
                assigned_to |-> assigned_to, lost_reason |-> <<>>,
                closed_date |-> NoDate]
    IN IF ~has_close_date \/ \E k \in DOMAIN deals : deals[k].deal_number = number
       THEN [ok |-> FALSE, deals |-> deals]
       ELSE [ok |-> TRUE, deals |-> (Cardinality(DOMAIN deals) + 1 :> row) @@ deals]

\* DealViewSet.get_queryset: the deals user u can list
VisibleDeals(u) ==
    LET team_users == {v \in DOMAIN users : users[v].reports_to = u}
    IN IF IsManager(u)
       THEN {d \in DOMAIN deals :
                deals[d].assigned_to = u \/ deals[d].assigned_to \in team_users}
       ELSE IF ~IsTenantAdmin(u)
       THEN {d \in DOMAIN deals : deals[d].assigned_to = u}
       ELSE DOMAIN deals

\* POST to the deal endpoint: DealSerializer.create
DealCreate(user, customer, assigned_to) ==
    /\ user \in DOMAIN users
    /\ customer \in DOMAIN customers
    /\ Cardinality(DOMAIN deals) < MaxDeals
    /\ LET res == DealInsert(NoRow, customer, "Deal", TRUE, assigned_to, user)
       IN /\ deals' = res.deals
          /\ op' = [name |-> "deal_create", id |-> 0,
                    status |-> IF res.ok THEN 201 ELSE 500, detail |-> ""]
          /\ now' = IF res.ok THEN now + 1 ELSE now
    /\ UNCHANGED <<billingVars, procs, leads, customers, users, requestVars, extVars>>

\* a save that stamps closed_date whenever the stage is a closed one
DealSaveRestamping(deal, t) ==
    IF deal.stage \in ClosedStages
    THEN [deal EXCEPT !.closed_date = t]
    ELSE deal

\* Deal.save, closed date: the row as written at clock reading t
DealSave(deal, t) ==
    IF deal.stage \in ClosedStages /\ deal.closed_date = NoDate
    THEN [deal EXCEPT !.closed_date = t]
    ELSE deal

\* the lost_reason values of the requests: blank, blanks only, short
\* reasons, and one longer than the column
LostReasons ==
    { <<>>, <<" ", " ">>, <<"p", "r", "i", "c", "e">>, <<" ", "f", "i", "t", " ">>,
      [i \in 1..(LostReasonMaxLength + 1) |-> "x"] }

\* the bodies posted to update_stage: the stage, whether lost_reason is
\* present, and its value
StageUpdates ==
    [stage : {"prospect", "negotiation", "closed_won", "closed_lost", "archived"},
     has_reason : {FALSE}, lost_reason : {<<>>}]
    \cup [stage : {"closed_lost", "closed_won"}, has_reason : {TRUE},
          lost_reason : LostReasons]

\* DealStageUpdateSerializer.is_valid: ChoiceField on stage, CharField
\* (allow_blank, trimming) on lost_reason, then validate()
StageUpdateValid(data) ==
    /\ data.stage \in STAGE_CHOICES
    /\ data.stage = "closed_lost" =>
          (data.has_reason /\ Strip(data.lost_reason) # <<>>)

\* POST deals/{pk}/update_stage/ by user u. The response of a stored update
\* is rendered by DealSerializer, whose weighted_amount field multiplies a
\* Decimal by a float and raises TypeError after the row was written.
DealUpdateStage(u, d, data) ==
    /\ u \in DOMAIN users
    /\ now < MaxSaves
    /\ IF d \notin VisibleDeals(u)
       THEN /\ op' = [name |-> "update_stage", id |-> d, status |-> 404, detail |-> "not_found"]
            /\ UNCHANGED <<deals, now>>
       ELSE IF ~StageUpdateValid(data)
       THEN /\ op' = [name |-> "update_stage", id |-> d, status |-> 400, detail |-> "invalid"]
            /\ UNCHANGED <<deals, now>>
       ELSE LET staged == [deals[d] EXCEPT !.stage = data.stage]
                updated == IF data.stage = "closed_lost"
                           THEN [staged EXCEPT !.lost_reason =
                                    IF data.has_reason THEN Strip(data.lost_reason) ELSE <<>>]
                           ELSE staged
                saved == DealSave(updated, now + 1)
            IN IF Len(saved.lost_reason) > LostReasonMaxLength
               THEN /\ op' = [name |-> "update_stage", id |-> d, status |-> 500,
                              detail |-> "DataError"]
                    /\ UNCHANGED <<deals, now>>
               ELSE /\ deals' = [deals EXCEPT ![d] = saved]
                    /\ now' = now + 1
                    /\ op' = [name |-> "update_stage", id |-> d, status |-> 500,
                              detail |-> "saved"]
    /\ response' = [request |-> data, result |-> op'.detail]
    /\ UNCHANGED <<billingVars, procs, leads, customers, users,
                   tenant, subscription, userRows, leadRows, extVars>>

\* PATCH deals/{pk}/ with a stage by user u: DealSerializer.update
\* (closed_date is read-only in the serializer)
DealPatch(u, d, stage) ==
    /\ u \in DOMAIN users
    /\ now < MaxSaves
    /\ IF d \notin VisibleDeals(u)
       THEN /\ op' = [name |-> "deal_patch", id |-> d, status |-> 404, detail |-> "not_found"]
            /\ UNCHANGED <<deals, now>>
       ELSE IF stage \notin STAGE_CHOICES
       THEN /\ op' = [name |-> "deal_patch", id |-> d, status |-> 400, detail |-> "invalid"]
            /\ UNCHANGED <<deals, now>>
       ELSE /\ deals' = [deals EXCEPT ![d] = DealSave([deals[d] EXCEPT !.stage = stage], now + 1)]
            /\ now' = now + 1
            /\ op' = [name |-> "deal_patch", id |-> d, status |-> 500, detail |-> "saved"]
    /\ UNCHANGED <<billingVars, procs, leads, customers, users, requestVars, extVars>>

\* ------------------------------------------------------------------------
\* sales.Lead
\* ------------------------------------------------------------------------
LeadInputs ==
    { [first_name |-> "Ann", last_name |-> "Lee", email |-> "ann@x.io", phone |-> "100",
       company_name |-> "Acme", address |-> "1 Main St", source |-> "website"],
      [first_name |-> "Bob", last_name |-> "Ray", email |-> "bob@y.io", phone |-> "200",
       company_name |-> "", address |-> "", source |-> "referral"] }

\* the statuses the callers of the model write (a subset of STATUS_CHOICES)
LeadStatuses == {"new", "converted"}

\* LeadViewSet.get_queryset: the leads user u can list and retrieve
VisibleLeads(u) ==
    LET team_users == {v \in DOMAIN users : users[v].reports_to = u}
    IN IF IsManager(u)
       THEN {l \in DOMAIN leads :
                leads[l].assigned_to = u \/ leads[l].assigned_to \in team_users}
       ELSE IF ~IsTenantAdmin(u)
       THEN {l \in DOMAIN leads : leads[l].assigned_to = u}
       ELSE DOMAIN leads

\* POST to the lead endpoint: LeadViewSet.perform_create and
\* LeadSerializer.create (auto-assignment not configured)
LeadCreate(user, in, assigned_to) ==
    /\ user \in DOMAIN users
    /\ Cardinality(DOMAIN leads) < MaxLeads
    /\ IF CanAddLeads(tenant)
       THEN LET id == Cardinality(DOMAIN leads) + 1
                row == [first_name |-> in.first_name, last_name |-> in.last_name,
                        email |-> in.email, phone |-> in.phone,
                        company_name |-> in.company_name, address |-> in.address,
                        source |-> in.source, assigned_to |-> assigned_to,
                        assigned_date |-> NoDate,
                        status |-> "new", converted_to_customer |-> NoRow]
            IN /\ leads' = (id :> row) @@ leads
               /\ op' = [name |-> "lead_create", id |-> 0, status |-> 201, detail |-> ""]
       ELSE /\ leads' = leads
            /\ op' = [name |-> "lead_create", id |-> 0, status |-> 500, detail |-> "NameError"]
    /\ UNCHANGED <<billingVars, now, procs, customers, deals, users, requestVars, extVars>>

\* PUT/PATCH to a lead: LeadSerializer.update with a new status
LeadUpdate(user, l, status) ==
    /\ user \in DOMAIN users
    /\ l \in VisibleLeads(user)
    /\ leads' = [leads EXCEPT ![l].status = status]
    /\ op' = [name |-> "lead_update", id |-> 0, status |-> 200, detail |-> ""]
    /\ UNCHANGED <<billingVars, now, procs, customers, deals, users, requestVars, extVars>>

\* the body of Lead.convert_to_customer after its status check: the
\* customer is created from the lead and the lead is marked converted
CreateCustomerFromLead(l, user) ==
    LET lead == leads[l]
        code == NextCustomerCode(customers)
        id == Cardinality(DOMAIN customers) + 1
        customer == [NewCustomer([first_name |-> lead.first_name, last_name |-> lead.last_name,
                         email |-> lead.email, phone |-> lead.phone,
                         company_name |-> lead.company_name,
                         billing_address |-> lead.address, lead_source |-> lead.source,
                         assigned_to |-> lead.assigned_to, created_by |-> user])
                        EXCEPT !.customer_code = code, !.created_at = now + 1]
    IN IF \E k \in DOMAIN customers : customers[k].customer_code = code
       THEN [result |-> "IntegrityError", customer |-> NoRow,
             customers |-> customers, leads |-> leads]
       ELSE [result |-> "ok", customer |-> id,
             customers |-> (id :> customer) @@ customers,
             leads |-> [leads EXCEPT ![l].converted_to_customer = id,
                                     ![l].status = "converted"]]

\* conversion that does not look at the lead's status
ConvertToCustomerAnyStatus(l, user) ==
    CreateCustomerFromLead(l, user)

\* Lead.convert_to_customer(user) on lead l: the outcome and the customers
\* and leads tables after it
ConvertToCustomer(l, user) ==
    IF leads[l].status = "converted"
    THEN [result |-> "ValueError", customer |-> NoRow,
          customers |-> customers, leads |-> leads]
    ELSE CreateCustomerFromLead(l, user)

\* request bodies of the convert endpoint (LeadConvertSerializer)
ConvertPayloads ==
    { [create_deal |-> FALSE, deal_title |-> "", has_close_date |-> FALSE],
      [create_deal |-> TRUE, deal_title |-> "", has_close_date |-> TRUE],
      [create_deal |-> TRUE, deal_title |-> "Deal", has_close_date |-> TRUE],
      [create_deal |-> TRUE, deal_title |-> "Deal", has_close_date |-> FALSE] }

\* POST leads/<l>/convert/: LeadViewSet.convert
LeadConvert(user, l, data) ==
    /\ user \in DOMAIN users
    /\ l \in DOMAIN leads
    /\ Cardinality(DOMAIN customers) < MaxCustomers
    /\ data.create_deal => Cardinality(DOMAIN deals) < MaxDeals
    /\ IF l \notin VisibleLeads(user)
       THEN /\ op' = [name |-> "convert", id |-> l, status |-> 404, detail |-> "not_found"]
            /\ UNCHANGED <<leads, customers, deals>>
       ELSE IF data.create_deal /\ data.deal_title = ""
       THEN /\ op' = [name |-> "convert", id |-> l, status |-> 400, detail |-> "invalid"]
            /\ UNCHANGED <<leads, customers, deals>>
       ELSE LET conv == ConvertToCustomer(l, user)
                deal == DealInsert(l, conv.customer, data.deal_title, data.has_close_date,
                                   leads[l].assigned_to, user)
            IN /\ customers' = conv.customers
               /\ leads' = conv.leads
               /\ IF conv.result = "ValueError"
                  THEN /\ op' = [name |-> "convert", id |-> l, status |-> 400,
                                 detail |-> "already_converted"]
                       /\ deals' = deals
                  ELSE IF conv.result = "IntegrityError"
                  THEN /\ op' = [name |-> "convert", id |-> l, status |-> 500,
                                 detail |-> "IntegrityError"]
                       /\ deals' = deals
                  ELSE IF ~data.create_deal
                  THEN /\ op' = [name |-> "convert", id |-> l, status |-> 200, detail |-> "ok"]
                       /\ deals' = deals
                  ELSE /\ deals' = deal.deals
                       /\ op' = [name |-> "convert", id |-> l,
                                 status |-> IF deal.ok THEN 200 ELSE 500,
                                 detail |-> IF deal.ok THEN "ok" ELSE "deal_failed"]
    /\ now' = IF customers' # customers THEN now + 1 ELSE now
    /\ UNCHANGED <<billingVars, procs, users, requestVars, extVars>>

\* the roles CanAssignLeads lets call bulk_assign
AssignRoles == {"super_admin", "admin", "manager"}

\* the roles BulkAssignSerializer.validate_assigned_to accepts as assignee
SalesRoles == {"admin", "manager", "executive"}

\* POST leads/bulk_assign/: LeadViewSet.bulk_assign with the lead ids and
\* the assignee of the request body
LeadBulkAssign(user, ids, assigned_to) ==
    /\ user \in DOMAIN users
    /\ now < MaxSaves
    /\ IF users[user].role \notin AssignRoles
       THEN /\ op' = [name |-> "bulk_assign", id |-> 0, status |-> 403,
                      detail |-> [user |-> user, ids |-> ids, updated |-> 0]]
            /\ UNCHANGED <<leads, now>>
       ELSE IF \/ ids = {}
               \/ assigned_to \notin DOMAIN users
               \/ users[assigned_to].role \notin SalesRoles
       THEN /\ op' = [name |-> "bulk_assign", id |-> 0, status |-> 400,
                      detail |-> [user |-> user, ids |-> ids, updated |-> 0]]
            /\ UNCHANGED <<leads, now>>
       ELSE LET matched == {l \in DOMAIN leads : l \in ids}
            IN /\ leads' = [l \in DOMAIN leads |->
                              IF l \in matched
                              THEN [leads[l] EXCEPT !.assigned_to = assigned_to,
                                                    !.assigned_date = now + 1]
                              ELSE leads[l]]
               /\ now' = now + 1
               /\ op' = [name |-> "bulk_assign", id |-> 0, status |-> 200,
                         detail |-> [user |-> user, ids |-> ids,
                                     updated |-> Cardinality(matched)]]
    /\ UNCHANGED <<billingVars, procs, customers, deals, users, requestVars, extVars>>


\* ------------------------------------------------------------------------
\* Requests: paths are sequences of their segments, so that
\* path.startswith('/a/b/') is a prefix test on segments
\* ------------------------------------------------------------------------
PublicSchema == "public"

ApiUsers == <<"api", "auth", "users">>          \* api/auth/ + router 'users'
ApiLeads == <<"api", "sales", "leads">>         \* api/sales/ + router 'leads'
PageUserCreate == <<"users", "create">>         \* '' + users/create/
PageLeadCreate == <<"sales", "leads", "create">>
PageDealCreate == <<"sales", "deals", "create">>
ApiLogin == <<"api", "auth", "login">>
PageSubscription == <<"billing", "subscription">>
UnroutedApiUsers == <<"api", "users">>          \* named by the middleware, no route

Paths == {ApiUsers, ApiLeads, PageUserCreate, PageLeadCreate, PageDealCreate, ApiLogin,
          PageSubscription, UnroutedApiUsers}

EXEMPT_URLS ==
    { <<"admin">>, <<"api", "auth", "login">>, <<"api", "auth", "logout">>,
      <<"billing", "subscription">>, <<"billing", "upgrade">>, <<"static">>, <<"media">> }

UploadMb == 2

\* the requests of the model: AJAX callers only on the pages, DELETE on one
\* page and one API route, uploads on two POSTs, the public site on one page
Requests ==
    { r \in [host : {"tenant", PublicSchema}, method : {"GET", "POST", "DELETE"},
             path : Paths, ajax : BOOLEAN, files_mb : {0, UploadMb}] :
        /\ r.ajax => r.path \in {PageDealCreate, PageUserCreate}
        /\ r.method = "DELETE" => r.path \in {PageDealCreate, ApiLeads}
        /\ r.files_mb # 0 => (r.method = "POST" /\ r.path \in {PageDealCreate, ApiUsers} /\ ~r.ajax)
        /\ r.host = PublicSchema => (r.path = PageDealCreate /\ r.method = "GET" /\ ~r.ajax) }

Pass == [kind |-> "pass", status |-> 0, code |-> "", resource |-> "", limit |-> 0]

JsonForbidden(code, resource, limit) ==
    [kind |-> "json", status |-> 403, code |-> code, resource |-> resource, limit |-> limit]

\* redirect(to) after a flash message naming (resource, limit)
Redirect(to, resource, limit) ==
    [kind |-> "redirect", status |-> 302, code |-> to, resource |-> resource, limit |-> limit]

ViewResponse(status) ==
    [kind |-> "view", status |-> status, code |-> "", resource |-> "", limit |-> 0]

IsExempt(path) == \E e \in EXEMPT_URLS : StartsWith(path, e)

\* request.is_ajax() or request.path.startswith('/api/')
IsApiCaller(req) == req.ajax \/ StartsWith(req.path, <<"api">>)

\* SubscriptionMiddleware._handle_cancelled_subscription
HandleCancelledSubscription(req) ==
    IF IsApiCaller(req)
    THEN JsonForbidden("SUBSCRIPTION_CANCELLED", "", 0)
    ELSE Redirect("billing:subscription", "", 0)

\* SubscriptionMiddleware._handle_past_due_subscription
HandlePastDueSubscription(req) ==
    IF IsApiCaller(req)
    THEN JsonForbidden("SUBSCRIPTION_PAST_DUE", "", 0)
    ELSE IF req.method # "GET"
    THEN Redirect("billing:subscription", "", 0)
    ELSE Pass

\* SubscriptionMiddleware._handle_expired_trial
HandleExpiredTrial(req) ==
    IF IsApiCaller(req)
    THEN JsonForbidden("TRIAL_EXPIRED", "", 0)
    ELSE Redirect("billing:upgrade", "", 0)

\* SubscriptionMiddleware._handle_limit_exceeded
HandleLimitExceeded(req, resource_type, limit) ==
    IF IsApiCaller(req)
    THEN JsonForbidden("LIMIT_EXCEEDED", resource_type, limit)
    ELSE Redirect("billing:upgrade", resource_type, limit)

\* SubscriptionMiddleware._check_resource_limits
CheckResourceLimits(req, t) ==
    IF (StartsWith(req.path, <<"accounts", "users", "create">>)
            \/ StartsWith(req.path, <<"api", "users">>)) /\ ~CanAddUsers(t)
    THEN HandleLimitExceeded(req, "users", t.max_users)
    ELSE IF (StartsWith(req.path, <<"sales", "leads", "create">>)
            \/ StartsWith(req.path, <<"api", "leads">>)) /\ ~CanAddLeads(t)
    THEN HandleLimitExceeded(req, "leads", t.max_leads)
    ELSE IF req.files_mb > 0 /\ t.current_storage_mb + req.files_mb > t.max_storage_mb
    THEN HandleLimitExceeded(req, "storage", t.max_storage_mb)
    ELSE Pass

IsTrialExpired(t) == t.subscription_status = "trial" /\ t.trial_expired

\* SubscriptionMiddleware.process_request: Pass, or the response that ends
\* the request
ProcessRequest(req, t) ==
    IF req.host = PublicSchema THEN Pass
    ELSE IF IsExempt(req.path) THEN Pass
    ELSE IF t.subscription_status = "cancelled" THEN HandleCancelledSubscription(req)
    ELSE IF t.subscription_status = "past_due" THEN HandlePastDueSubscription(req)
    ELSE IF IsTrialExpired(t) THEN HandleExpiredTrial(req)
    ELSE IF req.method = "POST" THEN CheckResourceLimits(req, t)
    ELSE Pass

\* the outcomes of the API view a request is routed to: the response and
\* the row it creates
ApiViewOutcomes(req, t) ==
    IF req.path = ApiUsers /\ req.method = "POST"      \* UserViewSet.perform_create
    THEN IF ~CanAddUsers(t)
         THEN {[result |-> [ViewResponse(500) EXCEPT !.code = "NameError"], creates |-> "none"]}
         ELSE {[result |-> ViewResponse(201), creates |-> "user"]}
    ELSE IF req.path = ApiLeads /\ req.method = "POST" \* LeadViewSet.perform_create
    THEN IF ~CanAddLeads(t)
         THEN {[result |-> [ViewResponse(500) EXCEPT !.code = "NameError"], creates |-> "none"]}
         ELSE {[result |-> ViewResponse(201), creates |-> "lead"]}
    ELSE IF req.path = UnroutedApiUsers
    THEN {[result |-> ViewResponse(404), creates |-> "none"]}
    ELSE IF req.path = ApiLogin
    THEN {[result |-> ViewResponse(IF req.method = "POST" THEN 200 ELSE 405), creates |-> "none"]}
    ELSE {[result |-> ViewResponse(IF req.method = "GET" THEN 200 ELSE 405), creates |-> "none"]}

\* the page views: a POST to a create page either saves the row and
\* redirects, or re-renders the form
PageViewOutcomes(req) ==
    IF req.method = "POST" /\ req.path \in {PageUserCreate, PageLeadCreate, PageDealCreate}
    THEN { [result |-> ViewResponse(302),
            creates |-> IF req.path = PageUserCreate THEN "user"
                        ELSE IF req.path = PageLeadCreate THEN "lead" ELSE "none"],
           [result |-> ViewResponse(200), creates |-> "none"] }
    ELSE {[result |-> ViewResponse(IF req.method = "GET" THEN 200 ELSE 405), creates |-> "none"]}

ViewOutcomes(req, t) ==
    IF StartsWith(req.path, <<"api">>) THEN ApiViewOutcomes(req, t) ELSE PageViewOutcomes(req)

\* UsageTrackingMiddleware.process_response: the tenant row after it, given
\* the row counts of the tenant schema
TrackUsage(req, status, t, user_count, lead_count) ==
    IF req.host = PublicSchema THEN t
    ELSE IF req.method = "POST" /\ status \in {200, 201}
    THEN IF StartsWith(req.path, <<"accounts", "users">>) \/ StartsWith(req.path, <<"api", "users">>)
         THEN [t EXCEPT !.current_users = user_count]
         ELSE IF StartsWith(req.path, <<"sales", "leads">>) \/ StartsWith(req.path, <<"api", "leads">>)
         THEN [t EXCEPT !.current_leads = lead_count]
         ELSE IF req.files_mb > 0
         THEN [t EXCEPT !.current_storage_mb = t.current_storage_mb + req.files_mb]
         ELSE t
    ELSE t

\* one request through SubscriptionMiddleware, the view and
\* UsageTrackingMiddleware
Request(req) ==
    LET early == ProcessRequest(req, tenant)
    IN /\ IF early # Pass
          THEN /\ response' = [request |-> req, result |-> early]
               /\ UNCHANGED <<tenant, userRows, leadRows>>
          ELSE \E out \in ViewOutcomes(req, tenant) :
               /\ out.creates = "user" => userRows < MaxUserRows
               /\ out.creates = "lead" => leadRows < MaxLeadRows
               /\ userRows' = IF out.creates = "user" THEN userRows + 1 ELSE userRows
               /\ leadRows' = IF out.creates = "lead" THEN leadRows + 1 ELSE leadRows
               /\ tenant' = TrackUsage(req, out.result.status, tenant, userRows', leadRows')
               /\ response' = [request |-> req, result |-> out.result]
       /\ op' = [name |-> "request", id |-> 0, status |-> response'.result.status,
                 detail |-> response'.result.code]
       /\ UNCHANGED <<billingVars, now, procs, salesVars, subscription, extVars>>

\* cancel() that forgets the owning tenant
SubscriptionCancelOnlySubscription ==
    /\ subscription' = [subscription EXCEPT !.status = "cancelled", !.cancelled_at = TRUE]
    /\ op' = [name |-> "cancel", id |-> 0, status |-> 0, detail |-> ""]
    /\ UNCHANGED <<billingVars, now, procs, salesVars, tenant, userRows, leadRows, response, extVars>>

\* Subscription.cancel
SubscriptionCancel ==
    /\ subscription' = [subscription EXCEPT !.status = "cancelled", !.cancelled_at = TRUE]
    /\ tenant' = [tenant EXCEPT !.subscription_status = "cancelled"]
    /\ op' = [name |-> "cancel", id |-> 0, status |-> 0, detail |-> ""]
    /\ UNCHANGED <<billingVars, now, procs, salesVars, userRows, leadRows, response, extVars>>

\* TenantAdmin: the platform operator edits subscription_status
AdminSetStatus(status) ==
    /\ tenant.subscription_status # status
    /\ tenant' = [tenant EXCEPT !.subscription_status = status]
    /\ op' = [name |-> "admin_status", id |-> 0, status |-> 0, detail |-> ""]
    /\ UNCHANGED <<billingVars, now, procs, salesVars, subscription, userRows, leadRows, response, extVars>>

\* TenantAdmin: the platform operator edits max_users (a plan change)
AdminSetMaxUsers(max_users) ==
    /\ tenant.max_users # max_users
    /\ tenant' = [tenant EXCEPT !.max_users = max_users]
    /\ op' = [name |-> "admin_limits", id |-> 0, status |-> 0, detail |-> ""]
    /\ UNCHANGED <<billingVars, now, procs, salesVars, subscription, userRows, leadRows, response, extVars>>

\* time passes trial_end_date
TrialEnds ==
    /\ ~tenant.trial_expired
    /\ tenant' = [tenant EXCEPT !.trial_expired = TRUE]
    /\ op' = [name |-> "trial_ends", id |-> 0, status |-> 0, detail |-> ""]
    /\ UNCHANGED <<billingVars, now, procs, salesVars, subscription, userRows, leadRows, response, extVars>>

\* ------------------------------------------------------------------------
\* Accounts: password reset (time in hours)
\* ------------------------------------------------------------------------
TokenLifetimeHours == 24
MinPasswordLength == 8

EmailInputs == {"ann@acme.io", "bob@acme.io", "not-an-email"}

\* serializers.EmailField
WellFormedEmail(e) == e # "not-an-email"

\* the passwords callers submit, with the length validate_password measures
PasswordInputs ==
    { [text |-> "first-new-pass", length |-> 14],
      [text |-> "other-new-pass", length |-> 14],
      [text |-> "short", length |-> 5] }

\* validate_password: MinimumLengthValidator
ValidatePassword(pw) == pw.length >= MinPasswordLength

ResetRequestDetail == "If an account exists with this email, a password reset link has been sent."

\* a reset request that answers 404 for an unknown email
PasswordResetRequestPostRevealing(email, registered) ==
    IF ~WellFormedEmail(email)
    THEN [status |-> 400, detail |-> "Enter a valid email address.", creates_token |-> FALSE]
    ELSE IF email \in registered
    THEN [status |-> 200, detail |-> ResetRequestDetail, creates_token |-> TRUE]
    ELSE [status |-> 404, detail |-> "No such user.", creates_token |-> FALSE]

\* PasswordResetRequestView.post against a user table: the response, and
\* whether a token is created and its email job enqueued
PasswordResetRequestPost(email, registered) ==
    IF ~WellFormedEmail(email)
    THEN [status |-> 400, detail |-> "Enter a valid email address.", creates_token |-> FALSE]
    ELSE [status |-> 200, detail |-> ResetRequestDetail, creates_token |-> email \in registered]

\* PasswordResetToken.save of a new row: token = uuid4, expires_at = now + 24h
NewResetToken(id, user) ==
    [user |-> user, token |-> id, is_used |-> FALSE, created_at |-> now,
     expires_at |-> now + TokenLifetimeHours]

\* PasswordResetToken.is_expired
IsExpired(tok) == now > tok.expires_at

\* POST password-reset/
PasswordResetRequest(email) ==
    LET out == PasswordResetRequestPost(email, DOMAIN passwords)
        id == Cardinality(DOMAIN resetTokens) + 1
    IN /\ out.creates_token => Cardinality(DOMAIN resetTokens) < MaxTokens
       /\ IF out.creates_token
          THEN /\ resetTokens' = (id :> NewResetToken(id, email)) @@ resetTokens
               /\ mailJobs' = mailJobs \cup {id}
          ELSE UNCHANGED <<resetTokens, mailJobs>>
       /\ response' = [request |-> [email |-> email],
                       result |-> [status |-> out.status, detail |-> out.detail]]
       /\ op' = [name |-> "reset_request", id |-> 0, status |-> out.status, detail |-> ""]
       /\ UNCHANGED <<billingVars, now, procs, salesVars, tenant, subscription,
                      userRows, leadRows, passwords, exceptAccounts>>

\* a token lookup that does not filter on is_used
ValidateTokenIgnoringUse(value) ==
    LET found == {k \in DOMAIN resetTokens : resetTokens[k].token = value}
    IN IF found = {}
       THEN [error |-> "Invalid reset token.", token |-> NoRow]
       ELSE LET k == CHOOSE k \in found : TRUE
            IN IF IsExpired(resetTokens[k])
               THEN [error |-> "Reset token has expired.", token |-> NoRow]
               ELSE [error |-> "", token |-> k]

\* PasswordResetConfirmSerializer.validate_token: the matching token row, or
\* the validation error
ValidateToken(value) ==
    LET found == {k \in DOMAIN resetTokens :
                     resetTokens[k].token = value /\ ~resetTokens[k].is_used}
    IN IF found = {}
       THEN [error |-> "Invalid reset token.", token |-> NoRow]
       ELSE LET k == CHOOSE k \in found : TRUE
            IN IF IsExpired(resetTokens[k])
               THEN [error |-> "Reset token has expired.", token |-> NoRow]
               ELSE [error |-> "", token |-> k]

\* POST password-reset-confirm/: is_valid(raise_exception=True), then
\* PasswordResetConfirmSerializer.save
PasswordResetConfirm(value, pw) ==
    LET v == ValidateToken(value)
    IN /\ IF v.error # "" \/ ~ValidatePassword(pw)
          THEN /\ op' = [name |-> "reset_confirm", id |-> value, status |-> 400,
                         detail |-> IF v.error # "" THEN v.error ELSE "password"]
               /\ UNCHANGED <<passwords, resetTokens>>
          ELSE /\ passwords' = [passwords EXCEPT ![resetTokens[v.token].user] = pw.text]
               /\ resetTokens' = [resetTokens EXCEPT ![v.token].is_used = TRUE]
               /\ op' = [name |-> "reset_confirm", id |-> value, status |-> 200,
                         detail |-> "Password reset successfully."]
       /\ response' = [request |-> [token |-> value, new_password |-> pw.text],
                       result |-> [status |-> op'.status, detail |-> op'.detail]]
       /\ UNCHANGED <<billingVars, now, procs, salesVars, tenant, subscription,
                      userRows, leadRows, mailJobs, exceptAccounts>>

\* a confirm request that has not started
ConfirmIdle == [pc |-> "idle", token |-> NoRow, new_password |-> ""]

\* POST password-reset-confirm/ handled by worker p, first step:
\* serializer.is_valid(raise_exception=True), which looks the token up
ConfirmValidate(p, value, pw) ==
    /\ p \in DOMAIN procs
    /\ procs[p].pc = "idle"
    /\ LET v == ValidateToken(value)
       IN IF v.error # "" \/ ~ValidatePassword(pw)
          THEN /\ procs' = [procs EXCEPT ![p].pc = "rejected"]
               /\ op' = [name |-> "confirm_validate", id |-> p, status |-> 400,
                         detail |-> IF v.error # "" THEN v.error ELSE "password"]
          ELSE /\ procs' = [procs EXCEPT ![p] = [pc |-> "validated", token |-> v.token,
                                                 new_password |-> pw.text]]
               /\ op' = [name |-> "confirm_validate", id |-> p, status |-> 0, detail |-> ""]
    /\ UNCHANGED <<billingVars, now, salesVars, requestVars, accountVars, exceptAccounts>>

\* second step of worker p: PasswordResetConfirmSerializer.save and the
\* response
ConfirmSave(p) ==
    /\ p \in DOMAIN procs
    /\ procs[p].pc = "validated"
    /\ passwords' = [passwords EXCEPT ![resetTokens[procs[p].token].user] =
                        procs[p].new_password]
    /\ resetTokens' = [resetTokens EXCEPT ![procs[p].token].is_used = TRUE]
    /\ procs' = [procs EXCEPT ![p].pc = "done"]
    /\ op' = [name |-> "confirm_save", id |-> p, status |-> 200,
              detail |-> "Password reset successfully."]
    /\ UNCHANGED <<billingVars, now, salesVars, requestVars, mailJobs, exceptAccounts>>

\* time passes
Tick ==
    /\ now + TickHours <= MaxHours
    /\ now' = now + TickHours
    /\ op' = [name |-> "tick", id |-> 0, status |-> 0, detail |-> ""]
    /\ UNCHANGED <<billingVars, procs, salesVars, requestVars, extVars>>

\* ------------------------------------------------------------------------
\* Rate limiting (time in seconds)
\* ------------------------------------------------------------------------
LoginLimit == 5
LoginWindow == 300
ApiLimit == 1000
ApiWindow == 3600
RegisterLimit == 3

\* RateLimitMiddleware.rates, in the order the loop visits them
Rates ==
    << [pattern |-> <<"api", "auth", "login">>, max_requests |-> LoginLimit, window |-> LoginWindow],
       [pattern |-> <<"api", "auth", "register">>, max_requests |-> RegisterLimit, window |-> ApiWindow],
       [pattern |-> <<"api", "auth", "password-reset">>, max_requests |-> RegisterLimit, window |-> ApiWindow],
       [pattern |-> <<"api">>, max_requests |-> ApiLimit, window |-> ApiWindow] >>

\* a lookup that keeps the last matching rule
RateLimitOfLastMatch(path) ==
    LET hits == {i \in DOMAIN Rates : StartsWith(path, Rates[i].pattern)}
    IN IF hits = {} THEN [pattern |-> <<>>, max_requests |-> 0, window |-> 0]
       ELSE Rates[CHOOSE i \in hits : \A j \in hits : i >= j]

\* rate_limit = None: no rule matches
NoRateLimit == [pattern |-> <<>>, max_requests |-> 0, window |-> 0]

\* the first rule whose pattern the path starts with
RateLimitOf(path) ==
    LET hits == {i \in DOMAIN Rates : StartsWith(path, Rates[i].pattern)}
    IN IF hits = {} THEN NoRateLimit
       ELSE Rates[CHOOSE i \in hits : \A j \in hits : i <= j]

Clients == {"ip:10.0.0.1", "ip:10.0.0.2"}

RatePaths == {ApiLogin, ApiLeads, PageDealCreate}

\* f"{path}:{client_id}"
CacheKey(path, client) == <<path, client>>

\* self.cache[cache_key], [] when the key is absent
CacheList(cache, key) == IF key \in DOMAIN cache THEN cache[key] ELSE <<>>

\* [timestamp for timestamp in list if current_time - timestamp < window]
RECURSIVE RecentEntries(_, _, _)
RecentEntries(list, current_time, window) ==
    IF list = <<>> THEN <<>>
    ELSE LET rest == RecentEntries(Tail(list), current_time, window)
         IN IF current_time - Head(list) < window THEN <<Head(list)>> \o rest ELSE rest

\* cache with cache[key] = list
CacheWith(cache, key, list) ==
    [k \in (DOMAIN cache) \cup {key} |-> IF k = key THEN list ELSE cache[k]]

\* the number of requests let through so far, over all keys
RECURSIVE TotalPassed(_, _)
TotalPassed(passed, keys) ==
    IF keys = {} THEN 0
    ELSE LET k == CHOOSE k \in keys : TRUE
         IN Len(passed[k]) + TotalPassed(passed, keys \ {k})

\* RateLimitMiddleware.process_request, run without interruption
RateLimitRequest(client, path) ==
    LET rule == RateLimitOf(path)
        key == CacheKey(path, client)
    IN /\ rateProcs = Empty
       /\ TotalPassed(ratePassed, DOMAIN ratePassed) < MaxPassed
       /\ IF rule = NoRateLimit
          THEN /\ op' = [name |-> "rate_request", id |-> 0, status |-> 0, detail |-> "no_rule"]
               /\ UNCHANGED <<rateCache, ratePassed>>
          ELSE LET recent == RecentEntries(CacheList(rateCache, key), now, rule.window)
               IN IF Len(recent) >= rule.max_requests
                  THEN /\ rateCache' = CacheWith(rateCache, key, recent)
                       /\ op' = [name |-> "rate_request", id |-> 0, status |-> 403,
                                 detail |-> "Rate limit exceeded. Please try again later."]
                       /\ UNCHANGED ratePassed
                  ELSE /\ rateCache' = CacheWith(rateCache, key, Append(recent, now))
                       /\ ratePassed' = CacheWith(ratePassed, key,
                                                  Append(CacheList(ratePassed, key), now))
                       /\ op' = [name |-> "rate_request", id |-> 0, status |-> 0, detail |-> "passed"]
       /\ response' = [request |-> [path |-> path, client |-> client],
                       result |-> [status |-> op'.status, detail |-> op'.detail]]
       /\ UNCHANGED <<billingVars, now, procs, salesVars, tenant, subscription,
                      userRows, leadRows, exceptRate, rateProcs>>

\* RateLimitMiddleware.process_request as the steps of a request thread p;
\* another thread may run between any two of them
RateIdleProc == [pc |-> "idle", key |-> <<>>, max_requests |-> 0, window |-> 0,
                 current_time |-> 0, filtered |-> <<>>]

\* lines 58-80: the rule, the key, time.time(), and the empty list for a new key
RateEnter(p, client, path) ==
    LET rule == RateLimitOf(path)
        key == CacheKey(path, client)
    IN /\ rateProcs[p].pc = "idle"
       /\ rule # NoRateLimit
       /\ TotalPassed(ratePassed, DOMAIN ratePassed) < MaxPassed
       /\ rateProcs' = [rateProcs EXCEPT ![p] =
              [pc |-> "filter", key |-> key, max_requests |-> rule.max_requests,
               window |-> rule.window, current_time |-> now, filtered |-> <<>>]]
       /\ rateCache' = CacheWith(rateCache, key, CacheList(rateCache, key))
       /\ op' = [name |-> "rate_enter", id |-> p, status |-> 0, detail |-> ""]
       /\ UNCHANGED <<billingVars, now, procs, salesVars, requestVars, exceptRate, ratePassed>>

\* lines 83-86, the list comprehension
RateFilter(p) ==
    /\ rateProcs[p].pc = "filter"
    /\ rateProcs' = [rateProcs EXCEPT ![p].pc = "store",
                        ![p].filtered = RecentEntries(rateCache[rateProcs[p].key],
                                            rateProcs[p].current_time, rateProcs[p].window)]
    /\ op' = [name |-> "rate_filter", id |-> p, status |-> 0, detail |-> ""]
    /\ UNCHANGED <<billingVars, now, procs, salesVars, requestVars, exceptRate,
                   rateCache, ratePassed>>

\* line 83, the assignment of the filtered list
RateStore(p) ==
    /\ rateProcs[p].pc = "store"
    /\ rateCache' = [rateCache EXCEPT ![rateProcs[p].key] = rateProcs[p].filtered]
    /\ rateProcs' = [rateProcs EXCEPT ![p].pc = "check"]
    /\ op' = [name |-> "rate_store", id |-> p, status |-> 0, detail |-> ""]
    /\ UNCHANGED <<billingVars, now, procs, salesVars, requestVars, exceptRate, ratePassed>>

\* lines 89-90: the length check and the 403
RateCheck(p) ==
    /\ rateProcs[p].pc = "check"
    /\ IF Len(rateCache[rateProcs[p].key]) >= rateProcs[p].max_requests
       THEN /\ rateProcs' = [rateProcs EXCEPT ![p] = RateIdleProc]
            /\ op' = [name |-> "rate_check", id |-> p, status |-> 403,
                      detail |-> "Rate limit exceeded. Please try again later."]
       ELSE /\ rateProcs' = [rateProcs EXCEPT ![p].pc = "append"]
            /\ op' = [name |-> "rate_check", id |-> p, status |-> 0, detail |-> ""]
    /\ UNCHANGED <<billingVars, now, procs, salesVars, requestVars, exceptRate,
                   rateCache, ratePassed>>

\* lines 93-95: the append, and the request goes on to the view
RateAppend(p) ==
    LET key == rateProcs[p].key
    IN /\ rateProcs[p].pc = "append"
       /\ rateCache' = [rateCache EXCEPT ![key] = Append(@, rateProcs[p].current_time)]
       /\ ratePassed' = CacheWith(ratePassed, key,
                                  Append(CacheList(ratePassed, key), rateProcs[p].current_time))
       /\ rateProcs' = [rateProcs EXCEPT ![p] = RateIdleProc]
       /\ op' = [name |-> "rate_append", id |-> p, status |-> 0, detail |-> "passed"]
       /\ UNCHANGED <<billingVars, now, procs, salesVars, requestVars, exceptRate>>

\* time.time() advances
RateTick ==
    /\ now + TickSeconds <= MaxSeconds
    /\ now' = now + TickSeconds
    /\ op' = [name |-> "tick", id |-> 0, status |-> 0, detail |-> ""]
    /\ UNCHANGED <<billingVars, procs, salesVars, requestVars, extVars>>

\* ------------------------------------------------------------------------
\* billing.Quotation and billing.QuotationItem
\* ------------------------------------------------------------------------
QT == <<"Q", "T">>
FirstQuoteNumber == 1001

QuotationStatuses == {"draft", "sent", "accepted", "rejected"}

\* the quotations the callers create: discount and whether valid_until lies
\* before today
QuotationInputs ==
    { [type |-> "percentage", value |-> 10, valid_passed |-> FALSE],
      [type |-> "fixed", value |-> 1000, valid_passed |-> FALSE],
      [type |-> "percentage", value |-> 0, valid_passed |-> TRUE] }

\* a new Quotation as its field defaults and the caller's arguments leave it
NewQuotation(in) ==
    [quote_number |-> <<>>, created_at |-> 0, status |-> "draft",
     subtotal |-> 0, discount_type |-> in.type, discount_value |-> in.value,
     discount_amount |-> 0, tax_amount |-> 0, total_amount |-> 0,
     valid_passed |-> in.valid_passed]

\* Quotation.is_expired
QuotationIsExpired(q) ==
    q.valid_passed /\ q.status \notin {"accepted", "rejected"}

\* Quotation.save, number generation
NextQuoteNumber(rows) ==
    LET prefixed == {k \in DOMAIN rows : StartsWith(rows[k].quote_number, QT)}
        last_quote == LatestOf(rows, prefixed)
        parts == Split(rows[last_quote].quote_number, "-")
        last_num == ParseInt(parts[Len(parts)])
        new_num == IF last_quote = NoRow THEN FirstQuoteNumber
                   ELSE IF last_num.ok THEN last_num.val + 1
                   ELSE FirstQuoteNumber
    IN QT \o <<"-">> \o ZeroPad(Digits(new_num), 6)

\* Quotation.save, expiry check: the row as written
QuotationSave(q) ==
    IF QuotationIsExpired(q) /\ q.status \notin {"accepted", "rejected", "expired"}
    THEN [q EXCEPT !.status = "expired"]
    ELSE q

\* QuotationItem.save: the row as written
QuotationItemSave(quote, in) ==
    LET subtotal4 == in.quantity * in.unit_price * 100
        discount4 == (subtotal4 * in.discount_percentage) \div 100
        taxable4 == subtotal4 - discount4
        tax4 == (taxable4 * in.tax_rate) \div 100
        total4 == taxable4 + tax4
    IN [quotation |-> quote,
        quantity |-> in.quantity,
        unit_price |-> in.unit_price,
        discount_percentage |-> in.discount_percentage,
        tax_rate |-> in.tax_rate,
        discount_amount |-> ToCents(discount4),
        tax_amount |-> ToCents(tax4),
        total |-> ToCents(total4)]

QuotationItemsOf(quote) ==
    {k \in DOMAIN quotationItems : quotationItems[k].quotation = quote}

\* Quotation.calculate_totals on the loaded object q; the result is the row
\* as a following save() writes it
QuotationCalculateTotals(q, itemIds) ==
    LET subtotal == SumOver(quotationItems, itemIds, "total")
        discount4 == IF q.discount_type = "fixed"
                     THEN Min(q.discount_value, subtotal) * 100
                     ELSE subtotal * q.discount_value
        taxable4 == subtotal * 100 - discount4
        tax_amount == SumOver(quotationItems, itemIds, "tax_amount")
        total4 == taxable4 + tax_amount * 100
    IN [q EXCEPT !.subtotal = subtotal,
                 !.discount_amount = ToCents(discount4),
                 !.tax_amount = tax_amount,
                 !.total_amount = ToCents(total4)]

\* Quotation.save of a new quotation
QuotationCreate(in) ==
    /\ Cardinality(DOMAIN quotations) < MaxQuotations
    /\ LET id == Cardinality(DOMAIN quotations) + 1
           row == [NewQuotation(in) EXCEPT
                      !.quote_number = NextQuoteNumber(quotations),
                      !.created_at = now + 1]
       IN /\ quotations' = (id :> QuotationSave(row)) @@ quotations
          /\ op' = [name |-> "quotation_create", id |-> id, status |-> 0, detail |-> ""]
    /\ now' = now + 1
    /\ UNCHANGED <<invoices, items, payments, procs, quotationItems,
                   salesVars, requestVars, exceptQuotes>>

\* QuotationItem.save of a new line item of quotation quote
QuotationItemCreate(quote, in) ==
    /\ quote \in DOMAIN quotations
    /\ Cardinality(DOMAIN quotationItems) < MaxQuotationItems
    /\ LET id == Cardinality(DOMAIN quotationItems) + 1
       IN /\ quotationItems' = (id :> QuotationItemSave(quote, in)) @@ quotationItems
          /\ op' = [name |-> "quotation_item_create", id |-> id, status |-> 0, detail |-> ""]
    /\ UNCHANGED <<invoices, items, payments, now, procs, quotations,
                   salesVars, requestVars, exceptQuotes>>

\* a caller's quotation.calculate_totals(); quotation.save()
QuotationRecalculate(quote) ==
    /\ quote \in DOMAIN quotations
    /\ quotations' = [quotations EXCEPT ![quote] =
           QuotationSave(QuotationCalculateTotals(quotations[quote], QuotationItemsOf(quote)))]
    /\ op' = [name |-> "quotation_calculate_totals", id |-> quote, status |-> 0, detail |-> ""]
    /\ UNCHANGED <<invoices, items, payments, now, procs, quotationItems,
                   salesVars, requestVars, exceptQuotes>>

\* a caller's quotation.status = status; quotation.save()
QuotationSetStatus(quote, status) ==
    /\ quote \in DOMAIN quotations
    /\ quotations[quote].status # status
    /\ quotations' = [quotations EXCEPT ![quote] =
           QuotationSave([quotations[quote] EXCEPT !.status = status])]
    /\ op' = [name |-> "quotation_status", id |-> quote, status |-> 0, detail |-> status]
    /\ UNCHANGED <<invoices, items, payments, now, procs, quotationItems,
                   salesVars, requestVars, exceptQuotes>>

\* the invoice Quotation.convert_to_invoice passes to Invoice.objects.create
InvoiceFromQuotation(quote, q) ==
    [NewInvoice([type |-> q.discount_type, value |-> q.discount_value,
                 status |-> "draft", due_passed |-> FALSE]) EXCEPT
        !.quotation = quote,
        !.subtotal = q.subtotal,
        !.discount_amount = q.discount_amount,
        !.tax_amount = q.tax_amount,
        !.total_amount = q.total_amount]

\* Quotation.convert_to_invoice
QuotationConvert(quote) ==
    /\ quote \in DOMAIN quotations
    /\ LET q == quotations[quote]
           src == QuotationItemsOf(quote)
           base == Cardinality(DOMAIN items)
           id == Cardinality(DOMAIN invoices) + 1
           rank(k) == Cardinality({j \in src : j <= k})
           copyOf(i) == CHOOSE k \in src : base + rank(k) = i
           copies == (base + 1)..(base + Cardinality(src))
           created == [InvoiceFromQuotation(quote, q) EXCEPT
                          !.invoice_number = NextInvoiceNumber(invoices),
                          !.created_at = now + 1]
           newItems == [i \in DOMAIN items \cup copies |->
                           IF i \in DOMAIN items THEN items[i]
                           ELSE InvoiceItemSave(id, quotationItems[copyOf(i)])]
       IN IF q.status # "accepted"
          THEN /\ op' = [name |-> "convert_to_invoice", id |-> quote, status |-> 0,
                         detail |-> "ValueError"]
               /\ UNCHANGED <<invoices, items, now>>
          ELSE /\ id <= MaxInvoices
               /\ base + Cardinality(src) <= MaxItems
               /\ items' = newItems
               /\ invoices' = (id :> InvoiceTotals(newItems, created, copies)) @@ invoices
               /\ now' = now + 1
               /\ op' = [name |-> "convert_to_invoice", id |-> quote, status |-> id,
                         detail |-> "created"]
    /\ UNCHANGED <<payments, procs, quoteVars, salesVars, requestVars, exceptQuotes>>

\* ------------------------------------------------------------------------
\* tasks.Task recurrence
\* ------------------------------------------------------------------------
\* datetimes are hours since an epoch (UTC, the configured time zone), dates
\* are days since it
HoursPerDay == 24
DailyDays == 1
WeeklyDays == 7
MonthlyDays == 30

\* a task without due_date, and a task without recurrence_end_date (NULL)
NoDue == -1
NoEnd == -1

\* datetime.date()
DateOf(hours) == hours \div HoursPerDay

\* the root tasks the callers create: whether recurring, the pattern, the
\* due datetime and how many days after the due date the recurrence ends
TaskInputs ==
    { [is_recurring |-> TRUE, recurrence_pattern |-> "weekly", due_date |-> 9, end_after |-> 21],
      [is_recurring |-> TRUE, recurrence_pattern |-> "weekly", due_date |-> 71, end_after |-> 21],
      [is_recurring |-> TRUE, recurrence_pattern |-> "weekly", due_date |-> 9, end_after |-> 20],
      [is_recurring |-> TRUE, recurrence_pattern |-> "weekly", due_date |-> 9, end_after |-> NoEnd],
      [is_recurring |-> TRUE, recurrence_pattern |-> "daily", due_date |-> 23, end_after |-> 2],
      [is_recurring |-> TRUE, recurrence_pattern |-> "monthly", due_date |-> 9, end_after |-> 45],
      [is_recurring |-> TRUE, recurrence_pattern |-> "yearly", due_date |-> 9, end_after |-> 400],
      [is_recurring |-> TRUE, recurrence_pattern |-> "weekly", due_date |-> NoDue, end_after |-> NoEnd],
      [is_recurring |-> FALSE, recurrence_pattern |-> "weekly", due_date |-> 9, end_after |-> 21] }

\* a task row; generated_from records the task whose create_next_recurrence
\* made it (not a column of the table)
NewTask(in) ==
    [status |-> "todo", due_date |-> in.due_date, is_recurring |-> in.is_recurring,
     recurrence_pattern |-> in.recurrence_pattern,
     recurrence_end_date |-> IF in.end_after = NoEnd \/ in.due_date = NoDue THEN NoEnd
                             ELSE DateOf(in.due_date) + in.end_after,
     parent_task |-> NoRow, generated_from |-> NoRow]

RootTasks == {t \in DOMAIN tasks : tasks[t].generated_from = NoRow}

\* Task.objects.create of a task that is not an instance of another
TaskCreate(in) ==
    /\ Cardinality(RootTasks) < MaxRootTasks
    /\ Cardinality(DOMAIN tasks) < MaxTasks
    /\ LET id == Cardinality(DOMAIN tasks) + 1
       IN /\ tasks' = (id :> NewTask(in)) @@ tasks
          /\ op' = [name |-> "task_create", id |-> id, status |-> 0, detail |-> ""]
    /\ UNCHANGED <<billingVars, now, procs, salesVars, requestVars, reminders, exceptTasks>>

\* the days create_next_recurrence adds for a pattern, 0 for an unknown one
PatternDays(pattern) ==
    CASE pattern = "daily" -> DailyDays
      [] pattern = "weekly" -> WeeklyDays
      [] pattern = "monthly" -> MonthlyDays
      [] OTHER -> 0

\* an end check that also stops on the end date itself
WithinRecurrenceExclusive(task, next_due) ==
    ~(task.recurrence_end_date # NoEnd /\ DateOf(next_due) >= task.recurrence_end_date)

\* create_next_recurrence, the check against recurrence_end_date
WithinRecurrence(task, next_due) ==
    ~(task.recurrence_end_date # NoEnd /\ DateOf(next_due) > task.recurrence_end_date)

\* a parent link to the task the instance was made from
RecurrenceParentPrevious(t) == t

\* create_next_recurrence, parent_task=self.parent_task or self
RecurrenceParent(t) ==
    IF tasks[t].parent_task # NoRow THEN tasks[t].parent_task ELSE t

\* Task.create_next_recurrence on task t: op.status is the row returned,
\* NoRow for None
CreateNextRecurrence(t) ==
    /\ t \in DOMAIN tasks
    /\ LET self == tasks[t]
           days == PatternDays(self.recurrence_pattern)
           next_due == self.due_date + days * HoursPerDay
           id == Cardinality(DOMAIN tasks) + 1
           new_task == [status |-> "todo", due_date |-> next_due, is_recurring |-> TRUE,
                        recurrence_pattern |-> self.recurrence_pattern,
                        recurrence_end_date |-> self.recurrence_end_date,
                        parent_task |-> RecurrenceParent(t), generated_from |-> t]
       IN IF ~self.is_recurring \/ days = 0
          THEN /\ op' = [name |-> "create_next_recurrence", id |-> t, status |-> NoRow,
                         detail |-> "none"]
               /\ UNCHANGED tasks
          ELSE IF self.due_date = NoDue
          THEN /\ op' = [name |-> "create_next_recurrence", id |-> t, status |-> NoRow,
                         detail |-> "TypeError"]
               /\ UNCHANGED tasks
          ELSE IF ~WithinRecurrence(self, next_due)
          THEN /\ op' = [name |-> "create_next_recurrence", id |-> t, status |-> NoRow,
                         detail |-> "none"]
               /\ UNCHANGED tasks
          ELSE /\ id <= MaxTasks
               /\ tasks' = (id :> new_task) @@ tasks
               /\ op' = [name |-> "create_next_recurrence", id |-> t, status |-> id,
                         detail |-> "created"]
    /\ UNCHANGED <<billingVars, now, procs, salesVars, requestVars, reminders, exceptTasks>>

\* ------------------------------------------------------------------------
\* accounts.User permissions
\* ------------------------------------------------------------------------
ROLE_CHOICES == {"super_admin", "admin", "manager", "executive", "viewer"}

CRUD == {"create", "read", "update", "delete"}

\* User.get_permissions: the dict returned for a role, each list as the set
\* of its actions
GetPermissions(role) ==
    CASE role \in {"super_admin", "admin"} ->
           [users |-> CRUD,
            leads |-> CRUD \cup {"assign"},
            customers |-> CRUD,
            deals |-> CRUD,
            products |-> CRUD,
            invoices |-> CRUD \cup {"send"},
            reports |-> {"view", "export"},
            settings |-> {"view", "update"},
            billing |-> {"view", "update"}]
      [] role = "manager" ->
           [users |-> {"read"},
            leads |-> CRUD \cup {"assign"},
            customers |-> CRUD,
            deals |-> CRUD,
            products |-> {"read"},
            invoices |-> {"create", "read", "update", "send"},
            reports |-> {"view", "export"},
            settings |-> {"view"}]
      [] role = "executive" ->
           [users |-> {},
            leads |-> {"create", "read", "update"},
            customers |-> {"create", "read", "update"},
            deals |-> {"create", "read", "update"},
            products |-> {"read"},
            invoices |-> {"create", "read"},
            reports |-> {"view"},
            settings |-> {}]
      [] role = "viewer" ->
           [users |-> {},
            leads |-> {"read"},
            customers |-> {"read"},
            deals |-> {"read"},
            products |-> {"read"},
            invoices |-> {"read"},
            reports |-> {"view"},
            settings |-> {}]
      [] OTHER -> Empty

\* UserSerializer.get_permissions: the permissions field of the serialized
\* user u
UserPermissions(u) ==
    /\ u \in DOMAIN users
    /\ response' = [request |-> u, result |-> GetPermissions(users[u].role)]
    /\ op' = [name |-> "get_permissions", id |-> 0, status |-> 200, detail |-> users[u].role]
    /\ UNCHANGED <<billingVars, now, procs, salesVars,
                   tenant, subscription, userRows, leadRows, extVars>>

\* an admin's change of the role of user u
UserSetRole(u, role) ==
    /\ u \in DOMAIN users
    /\ users[u].role # role
    /\ users' = [users EXCEPT ![u].role = role]
    /\ op' = [name |-> "set_role", id |-> 0, status |-> 200, detail |-> role]
    /\ UNCHANGED <<billingVars, now, procs, leads, customers, deals,
                   requestVars, extVars>>

\* ------------------------------------------------------------------------
\* sales.Lead auto-assignment
\* ------------------------------------------------------------------------
AssignmentMethods == {"round_robin", "least_loaded", "random"}

\* _get_auto_assigned_user, the sales_users queryset
SalesUsers ==
    {u \in DOMAIN users : users[u].role \in {"manager", "executive"} /\ users[u].is_active}

ActiveLeadsOf(u) ==
    Cardinality({l \in DOMAIN leads : leads[l].assigned_to = u
                                      /\ leads[l].status \in {"new", "contacted", "qualified"}})

\* LeadViewSet._get_auto_assigned_user: the users .first() can return (None
\* when the queryset is empty), or the exception raised. The round_robin
\* branch calls Max, a name sales/api/views.py does not import.
GetAutoAssignedUser(method) ==
    IF method = "round_robin"
    THEN [raised |-> "NameError", choices |-> {}]
    ELSE IF SalesUsers = {}
    THEN [raised |-> "", choices |-> {None}]
    ELSE IF method = "least_loaded"
    THEN [raised |-> "",
          choices |-> {u \in SalesUsers :
                          \A v \in SalesUsers : ActiveLeadsOf(u) <= ActiveLeadsOf(v)}]
    ELSE [raised |-> "", choices |-> SalesUsers]

\* POST to the lead endpoint of a tenant with settings:
\* LeadViewSet.perform_create and LeadSerializer.create
LeadAutoCreate(user, in, requested) ==
    /\ user \in DOMAIN users
    /\ Cardinality(DOMAIN leads) < MaxLeads
    /\ LET id == Cardinality(DOMAIN leads) + 1
           found == IF tenant.auto_assign_leads
                    THEN GetAutoAssignedUser(tenant.lead_assignment_method)
                    ELSE [raised |-> "", choices |-> {requested}]
           Row(a) == [first_name |-> in.first_name, last_name |-> in.last_name,
                      email |-> in.email, phone |-> in.phone,
                      company_name |-> in.company_name, address |-> in.address,
                      source |-> in.source, assigned_to |-> a,
                      assigned_date |-> NoDate,
                      status |-> "new", converted_to_customer |-> NoRow]
       IN IF ~CanAddLeads(tenant)
          THEN /\ leads' = leads
               /\ op' = [name |-> "lead_auto_create", id |-> 0, status |-> 500,
                         detail |-> "NameError"]
          ELSE IF found.raised # ""
          THEN /\ leads' = leads
               /\ op' = [name |-> "lead_auto_create", id |-> 0, status |-> 500,
                         detail |-> found.raised]
          ELSE \E a \in found.choices :
                  /\ leads' = (id :> Row(a)) @@ leads
                  /\ op' = [name |-> "lead_auto_create", id |-> id, status |-> 201,
                            detail |-> ""]
    /\ UNCHANGED <<billingVars, now, procs, customers, deals, users, requestVars, extVars>>

\* ------------------------------------------------------------------------
\* tasks.Reminder
\* ------------------------------------------------------------------------
\* a new Reminder as its field defaults leave it (sent_at, read_at NULL)
NewReminder ==
    [is_sent |-> FALSE, sent_at |-> NoDate, is_read |-> FALSE, read_at |-> NoDate]

\* Reminder.objects.create
ReminderCreate ==
    /\ Cardinality(DOMAIN reminders) < MaxReminders
    /\ LET id == Cardinality(DOMAIN reminders) + 1
       IN /\ reminders' = (id :> NewReminder) @@ reminders
          /\ op' = [name |-> "reminder_create", id |-> id, status |-> 0, detail |-> ""]
    /\ UNCHANGED <<billingVars, now, procs, salesVars, requestVars, tasks, exceptTasks>>

\* Reminder.mark_as_sent
MarkAsSent(r) ==
    /\ r \in DOMAIN reminders
    /\ reminders' = [reminders EXCEPT ![r].is_sent = TRUE, ![r].sent_at = now]
    /\ op' = [name |-> "mark_as_sent", id |-> r, status |-> 0, detail |-> ""]
    /\ UNCHANGED <<billingVars, now, procs, salesVars, requestVars, tasks, exceptTasks>>

\* Reminder.mark_as_read
MarkAsRead(r) ==
    /\ r \in DOMAIN reminders
    /\ reminders' = [reminders EXCEPT ![r].is_read = TRUE, ![r].read_at = now]
    /\ op' = [name |-> "mark_as_read", id |-> r, status |-> 0, detail |-> ""]
    /\ UNCHANGED <<billingVars, now, procs, salesVars, requestVars, tasks, exceptTasks>>

\* ------------------------------------------------------------------------
\* Concurrent document creation: save() of a new Invoice or Customer in two
\* steps, the query for the latest row and the INSERT under the unique
\* constraint on the number column
\* ------------------------------------------------------------------------
Procs == 1..NumProcs

Idle == [pc |-> "idle", kind |-> None, number |-> <<>>]

\* save() up to the call of super().save(): read the latest row and compute
\* the number
SaveRead(p, kind) ==
    /\ procs[p].pc \in {"idle", "done", "failed"}
    /\ \/ /\ kind = "invoice"
          /\ Cardinality(DOMAIN invoices) < MaxInvoices
          /\ procs' = [procs EXCEPT ![p] =
                 [pc |-> "computed", kind |-> kind, number |-> NextInvoiceNumber(invoices)]]
       \/ /\ kind = "customer"
          /\ Cardinality(DOMAIN customers) < MaxCustomers
          /\ procs' = [procs EXCEPT ![p] =
                 [pc |-> "computed", kind |-> kind, number |-> NextCustomerCode(customers)]]
    /\ op' = [name |-> "save_read", id |-> p, status |-> 0, detail |-> ""]
    /\ UNCHANGED <<invoices, items, payments, now, leads, customers, deals, users, requestVars, extVars>>

\* super().save(): the INSERT; a duplicate of a unique column raises
\* IntegrityError and the creation fails
SaveInsert(p) ==
    /\ procs[p].pc = "computed"
    /\ \/ /\ procs[p].kind = "invoice"
          /\ IF \E k \in DOMAIN invoices : invoices[k].invoice_number = procs[p].number
             THEN /\ procs' = [procs EXCEPT ![p].pc = "failed"]
                  /\ UNCHANGED <<invoices, now>>
             ELSE /\ invoices' =
                        (Cardinality(DOMAIN invoices) + 1 :>
                            [NewInvoice(CHOOSE in \in InvoiceInputs : in.value = 0) EXCEPT
                                !.invoice_number = procs[p].number,
                                !.created_at = now + 1]) @@ invoices
                  /\ now' = now + 1
                  /\ procs' = [procs EXCEPT ![p].pc = "done"]
          /\ UNCHANGED customers
       \/ /\ procs[p].kind = "customer"
          /\ IF \E k \in DOMAIN customers : customers[k].customer_code = procs[p].number
             THEN /\ procs' = [procs EXCEPT ![p].pc = "failed"]
                  /\ UNCHANGED <<customers, now>>
             ELSE /\ customers' =
                        (Cardinality(DOMAIN customers) + 1 :>
                            [NewCustomer(DirectCustomer) EXCEPT
                                !.customer_code = procs[p].number,
                                !.created_at = now + 1]) @@ customers
                  /\ now' = now + 1
                  /\ procs' = [procs EXCEPT ![p].pc = "done"]
          /\ UNCHANGED invoices
    /\ op' = [name |-> "save_insert", id |-> p, status |-> 0, detail |-> ""]
    /\ UNCHANGED <<items, payments, leads, deals, users, requestVars, extVars>>

\* ------------------------------------------------------------------------
\* Initial values of the parts a specification does not exercise
\* ------------------------------------------------------------------------
BillingInit == invoices = Empty /\ items = Empty /\ payments = Empty

SalesIdle == leads = Empty /\ customers = Empty /\ deals = Empty /\ users = Empty

RequestsIdle ==
    /\ tenant = None
    /\ subscription = None
    /\ userRows = 0
    /\ leadRows = 0
    /\ response = None

AccountsIdle == passwords = Empty /\ resetTokens = Empty /\ mailJobs = {}

RateIdle == rateCache = Empty /\ ratePassed = Empty /\ rateProcs = Empty

QuotesIdle == quotations = Empty /\ quotationItems = Empty

TasksIdle == tasks = Empty /\ reminders = Empty

ExtIdle == AccountsIdle /\ RateIdle /\ QuotesIdle /\ TasksIdle

\* ------------------------------------------------------------------------
\* SpecBilling: sequential billing operations on a fresh tenant
\* ------------------------------------------------------------------------
InitBilling ==
    /\ BillingInit
    /\ now = 0
    /\ op = NoOp
    /\ ExtIdle
    /\ procs = Empty
    /\ SalesIdle
    /\ RequestsIdle

NextBilling ==
    \/ \E in \in InvoiceInputs : InvoiceCreate(in)
    \/ \E inv \in 1..MaxInvoices, in \in ItemInputs : InvoiceItemCreate(inv, in)
    \/ \E inv \in 1..MaxInvoices : InvoiceRecalculate(inv)
    \/ \E inv \in 1..MaxInvoices, a \in PaymentAmounts : PaymentCreate(inv, a)
    \/ \E pk \in 1..MaxPayments : PaymentEdit(pk)

SpecBilling == InitBilling /\ [][NextBilling]_vars

\* SpecInvoicing: invoices and their line items only
NextInvoicing ==
    \/ \E in \in InvoiceInputs : InvoiceCreate(in)
    \/ \E inv \in 1..MaxInvoices, in \in ItemInputs : InvoiceItemCreate(inv, in)
    \/ \E inv \in 1..MaxInvoices : InvoiceRecalculate(inv)

SpecInvoicing == InitBilling /\ [][NextInvoicing]_vars

\* ------------------------------------------------------------------------
\* Properties of the billing operations
\* ------------------------------------------------------------------------

\* C1: the first save of a Payment against an invoice increases that
\* invoice's persisted amount_paid by exactly the payment amount and leaves
\* amount_due = total_amount - amount_paid; saving the same Payment again
\* leaves the invoice's amount_paid unchanged.
C1_PaymentCreateUpdatesInvoice ==
    [][ /\ \A p \in (DOMAIN payments') \ (DOMAIN payments) :
              LET i == payments'[p].invoice
              IN /\ invoices'[i].amount_paid = invoices[i].amount_paid + payments'[p].amount
                 /\ invoices'[i].amount_due =
                        invoices'[i].total_amount - invoices'[i].amount_paid
        /\ (op'.name = "payment_edit" /\ DOMAIN payments' = DOMAIN payments) =>
              \A i \in DOMAIN invoices : invoices'[i].amount_paid = invoices[i].amount_paid
      ]_vars

\* rank of invoice i in creation order (1 = first created)
CreationRank(i) ==
    Cardinality({j \in DOMAIN invoices : invoices[j].created_at <= invoices[i].created_at})

HasExampleItems(i) ==
    /\ Cardinality(ItemsOf(i)) = 2
    /\ \E a, b \in ItemsOf(i) :
           /\ items[a].quantity = 2 /\ items[a].unit_price = 10000
           /\ items[a].discount_percentage = 10 /\ items[a].tax_rate = 18
           /\ items[b].quantity = 1 /\ items[b].unit_price = 5000
           /\ items[b].discount_percentage = 0 /\ items[b].tax_rate = 18

\* C5: after calculate_totals on an invoice whose invoice-level discount is
\* 0, total_amount equals the sum of its line items' totals; for the two
\* example items (totals 212.40 and 59.00) it is 271.40.
C5_TotalIsSumOfItemTotals ==
    (op.name = "calculate_totals" /\ invoices[op.id].discount_value = 0) =>
        /\ invoices[op.id].total_amount = SumOver(items, ItemsOf(op.id), "total")
        /\ HasExampleItems(op.id) => invoices[op.id].total_amount = 27140


\* ------------------------------------------------------------------------
\* SpecNumbering: concurrent creations of numbered documents in one tenant
\* ------------------------------------------------------------------------
InitNumbering ==
    /\ BillingInit
    /\ now = 0
    /\ op = NoOp
    /\ ExtIdle
    /\ procs = [p \in Procs |-> Idle]
    /\ SalesIdle
    /\ RequestsIdle

NextNumbering ==
    \/ \E p \in Procs, kind \in {"invoice", "customer"} : SaveRead(p, kind)
    \/ \E p \in Procs : SaveInsert(p)

SpecNumbering == InitNumbering /\ [][NextNumbering]_vars

\* C3: for any interleaving of concurrent creations every creation
\* completes successfully, and the numbers assigned are pairwise distinct
\* and strictly increasing in commit order.
C3_ConcurrentCreationsSucceed ==
    /\ \A p \in Procs : procs[p].pc # "failed"
    /\ \A i, j \in DOMAIN invoices :
           invoices[i].created_at < invoices[j].created_at =>
               ParseInt(SubSeq(invoices[i].invoice_number, 5, 10)).val
                   < ParseInt(SubSeq(invoices[j].invoice_number, 5, 10)).val
    /\ \A i, j \in DOMAIN customers :
           customers[i].created_at < customers[j].created_at =>
               ParseInt(SubSeq(customers[i].customer_code, 6, 10)).val
                   < ParseInt(SubSeq(customers[j].customer_code, 6, 10)).val

\* ------------------------------------------------------------------------
\* SpecSales: the sales API used by a manager M, her reports A and B, an
\* unrelated user C and a tenant administrator D
\* ------------------------------------------------------------------------
EnterpriseTenant ==
    [schema_name |-> "acme", subscription_status |-> "active", trial_expired |-> FALSE,
     max_users |-> -1, current_users |-> 0, max_leads |-> -1, current_leads |-> 0,
     max_storage_mb |-> 3, current_storage_mb |-> 0]

InitSales ==
    /\ BillingInit
    /\ now = 0
    /\ op = NoOp
    /\ ExtIdle
    /\ procs = Empty
    /\ leads = Empty /\ customers = Empty /\ deals = Empty
    /\ \E adminRole \in {"admin", "super_admin"}, otherRole \in {"executive"} :
           users = [u \in UserNames |->
                      CASE u = "M" -> [role |-> "manager", reports_to |-> None]
                        [] u \in {"A", "B"} -> [role |-> "executive", reports_to |-> "M"]
                        [] u = "C" -> [role |-> otherRole, reports_to |-> None]
                        [] u = "D" -> [role |-> adminRole, reports_to |-> None]]
    /\ tenant = EnterpriseTenant
    /\ subscription = None
    /\ userRows = 0
    /\ leadRows = 0
    /\ response = None

Assignees == {"A", "C"}

NextSales ==
    \/ \E in \in LeadInputs, a \in Assignees : LeadCreate("D", in, a)
    \/ \E u \in {"M", "C"}, l \in 1..MaxLeads, st \in LeadStatuses : LeadUpdate(u, l, st)
    \/ \E u \in {"M", "C"}, l \in 1..MaxLeads, data \in ConvertPayloads :
           LeadConvert(u, l, data)
    \/ \E c \in 1..MaxCustomers, a \in Assignees : DealCreate("M", c, a)

SpecSales == InitSales /\ [][NextSales]_vars

\* SpecConversion: leads assigned to A, updated and converted by the manager
\* M (who sees them) and by C (who does not)
NextConversion ==
    \/ \E in \in LeadInputs : LeadCreate("D", in, "A")
    \/ \E u \in {"M", "C"}, l \in 1..MaxLeads, st \in LeadStatuses : LeadUpdate(u, l, st)
    \/ \E u \in {"M", "C"}, l \in 1..MaxLeads, data \in ConvertPayloads :
           LeadConvert(u, l, data)

SpecConversion == InitSales /\ [][NextConversion]_vars

\* C2: a convert request that reaches the conversion, on a lead whose status
\* is not 'converted', creates exactly one Customer carrying the lead's
\* contact fields, sets the lead's status to 'converted' and links
\* converted_to_customer; on a lead already 'converted' it fails with an
\* invalid-state error (400), creates no Customer and leaves the lead
\* unchanged.
C2_LeadConversionOneWay ==
    [][ (op'.name = "convert" /\ op'.detail \notin {"not_found", "invalid"}) =>
          LET l == op'.id
              created == (DOMAIN customers') \ (DOMAIN customers)
          IN IF leads[l].status # "converted"
             THEN /\ Cardinality(created) = 1
                  /\ \A k \in DOMAIN customers : customers'[k] = customers[k]
                  /\ \A c \in created :
                        /\ customers'[c].first_name = leads[l].first_name
                        /\ customers'[c].last_name = leads[l].last_name
                        /\ customers'[c].email = leads[l].email
                        /\ customers'[c].phone = leads[l].phone
                        /\ customers'[c].company_name = leads[l].company_name
                        /\ customers'[c].billing_address = leads[l].address
                        /\ leads'[l].converted_to_customer = c
                  /\ leads'[l].status = "converted"
             ELSE /\ op'.status = 400
                  /\ op'.detail = "already_converted"
                  /\ customers' = customers
                  /\ leads' = leads
                  /\ deals' = deals
      ]_vars

\* C2 witness: a second convert on a converted lead has just been refused,
\* and the customer of the first conversion exists
C2_Witness ==
    /\ op.name = "convert"
    /\ op.detail = "already_converted"
    /\ leads[op.id].status = "converted"
    /\ leads[op.id].converted_to_customer \in DOMAIN customers
    /\ customers[leads[op.id].converted_to_customer].email = leads[op.id].email

\* C6: a manager sees the deals assigned to her direct reports and not the
\* deals assigned to an unrelated user; a user with role admin or
\* super_admin sees every deal regardless of assignee.
C6_RoleVisibility ==
    \A u \in DOMAIN users :
        /\ users[u].role = "manager" =>
              \A d \in DOMAIN deals :
                  /\ (deals[d].assigned_to \in DOMAIN users
                        /\ users[deals[d].assigned_to].reports_to = u) => d \in VisibleDeals(u)
                  /\ (deals[d].assigned_to \in DOMAIN users
                        /\ deals[d].assigned_to # u
                        /\ users[deals[d].assigned_to].reports_to # u) => d \notin VisibleDeals(u)
        /\ IsTenantAdmin(u) => VisibleDeals(u) = DOMAIN deals

\* ------------------------------------------------------------------------
\* SpecMiddleware: requests to a starter-plan tenant whose usage counters
\* start in step with its rows
\* ------------------------------------------------------------------------
StarterMaxUsers == 5
TenantMaxLeads == 2
TenantMaxStorageMb == 3

InitMiddleware ==
    /\ BillingInit
    /\ now = 0
    /\ op = NoOp
    /\ ExtIdle
    /\ procs = Empty
    /\ SalesIdle
    /\ \E st \in {"trial", "active"}, u \in {StarterMaxUsers - 1, StarterMaxUsers} :
           /\ tenant = [schema_name |-> "acme", subscription_status |-> st,
                        trial_expired |-> FALSE,
                        max_users |-> StarterMaxUsers, current_users |-> u,
                        max_leads |-> TenantMaxLeads, current_leads |-> 1,
                        max_storage_mb |-> TenantMaxStorageMb, current_storage_mb |-> 0]
           /\ subscription = [status |-> st, cancelled_at |-> FALSE]
           /\ userRows = u
    /\ leadRows = 1
    /\ response = None

NextMiddleware ==
    \/ \E req \in Requests : Request(req)
    \/ SubscriptionCancel
    \/ \E st \in {"active", "past_due"} : AdminSetStatus(st)
    \/ \E m \in {-1, StarterMaxUsers} : AdminSetMaxUsers(m)
    \/ TrialEnds

SpecMiddleware == InitMiddleware /\ [][NextMiddleware]_vars

\* a request of the business tenant that the subscription check applies to
IsCheckedRequest(req) == req.host = "tenant" /\ ~IsExempt(req.path)

\* the response refuses the request: a JSON 403 or a redirect to a billing page
IsBlocked(result) == result.kind \in {"json", "redirect"}

\* C7: Subscription.cancel() sets the subscription and its tenant to
\* 'cancelled', and every non-exempt request to a tenant whose status is
\* 'cancelled' is blocked, whatever its method: API and AJAX callers get a
\* JSON 403 with code SUBSCRIPTION_CANCELLED, page callers are redirected to
\* the subscription page.
C7_CancelledTenantIsBlocked ==
    [][ /\ op'.name = "cancel" =>
            /\ subscription'.status = "cancelled"
            /\ tenant'.subscription_status = "cancelled"
        /\ (op'.name = "request" /\ tenant.subscription_status = "cancelled"
                /\ IsCheckedRequest(response'.request)) =>
            /\ response'.result =
                   IF IsApiCaller(response'.request)
                   THEN JsonForbidden("SUBSCRIPTION_CANCELLED", "", 0)
                   ELSE Redirect("billing:subscription", "", 0)
            /\ UNCHANGED <<tenant, userRows, leadRows>> ]_vars

\* a GET of an API route is refused after the subscription was cancelled
C7_Witness ==
    /\ op.name = "request"
    /\ subscription.status = "cancelled"
    /\ tenant.subscription_status = "cancelled"
    /\ response.request.method = "GET"
    /\ response.request.path = ApiLeads
    /\ response.result.code = "SUBSCRIPTION_CANCELLED"

UserCreateRoutes == {ApiUsers}

\* C9: a POST to /api/auth/users/ for a tenant that cannot add users
\* (max_users = 5, current_users = 5) is rejected with a limit-exceeded
\* error naming resource 'users' and the limit (the middleware's
\* LIMIT_EXCEEDED, or a 400 of the view naming the limit), and creates no
\* user; with max_users = -1 the limit never rejects.
C9_UserLimitGatesCreation ==
    [][ (op'.name = "request" /\ response'.request.method = "POST"
            /\ response'.request.host = "tenant"
            /\ response'.request.path \in UserCreateRoutes
            /\ tenant.subscription_status \in {"active", "trial"}
            /\ ~IsTrialExpired(tenant)) =>
          IF CanAddUsers(tenant)
          THEN ~IsBlocked(response'.result)
          ELSE /\ \/ response'.result =
                         HandleLimitExceeded(response'.request, "users", tenant.max_users)
                  \/ /\ response'.result.status = 400
                     /\ response'.result.limit = tenant.max_users
               /\ userRows' = userRows ]_vars

\* C10: after a POST answered with a 2xx status on /api/auth/users/ or
\* /api/sales/leads/, the tenant's stored counter equals the number of rows.
C10_CountersFollowRows ==
    (op.name = "request" /\ response.request.method = "POST"
        /\ response.request.host = "tenant"
        /\ response.result.kind = "view"
        /\ response.result.status \in 200..299) =>
        /\ response.request.path = ApiUsers => tenant.current_users = userRows
        /\ response.request.path = ApiLeads => tenant.current_leads = leadRows

\* ------------------------------------------------------------------------
\* SpecAccounts: password reset requests and confirmations over time
\* ------------------------------------------------------------------------
InitAccounts ==
    /\ BillingInit
    /\ now = 0
    /\ op = NoOp
    /\ procs = Empty
    /\ SalesIdle
    /\ RequestsIdle
    /\ \E registered \in {{"ann@acme.io"}, {"ann@acme.io", "bob@acme.io"}} :
           passwords = [e \in registered |-> "old-password"]
    /\ resetTokens = Empty
    /\ mailJobs = {}
    /\ RateIdle
    /\ QuotesIdle
    /\ TasksIdle

NextAccounts ==
    \/ \E e \in EmailInputs : PasswordResetRequest(e)
    \/ \E value \in 0..MaxTokens, pw \in PasswordInputs : PasswordResetConfirm(value, pw)
    \/ Tick

SpecAccounts == InitAccounts /\ [][NextAccounts]_vars

\* C11: a confirm with an unused token that is not past expires_at (and a
\* password that passes validation) sets the new password and marks the
\* token used; a confirm with a used token fails and changes nothing; a
\* confirm with a token past expires_at fails, on first use too, and leaves
\* the password and the token unchanged.
C11_ResetTokenSingleUseAndExpiring ==
    [][ op'.name = "reset_confirm" =>
          LET k == op'.id
              pw == response'.request.new_password
          IN IF k \notin DOMAIN resetTokens
             THEN op'.status = 400 /\ UNCHANGED <<passwords, resetTokens>>
             ELSE IF resetTokens[k].is_used \/ now > resetTokens[k].expires_at
             THEN op'.status = 400 /\ UNCHANGED <<passwords, resetTokens>>
             ELSE IF \E p \in PasswordInputs : p.text = pw /\ ValidatePassword(p)
             THEN /\ op'.status = 200
                  /\ passwords' = [passwords EXCEPT ![resetTokens[k].user] = pw]
                  /\ resetTokens' = [resetTokens EXCEPT ![k].is_used = TRUE]
             ELSE op'.status = 400 /\ UNCHANGED <<passwords, resetTokens>>
      ]_vars

\* a second confirm with a token already used has just been refused, and the
\* password is the one the first confirm set
C11_Witness ==
    /\ op.name = "reset_confirm"
    /\ op.status = 400
    /\ op.id \in DOMAIN resetTokens
    /\ resetTokens[op.id].is_used
    /\ now <= resetTokens[op.id].expires_at
    /\ passwords[resetTokens[op.id].user] = "first-new-pass"
    /\ response.request.new_password = "other-new-pass"

\* the response of a reset request for email e when the user table is
\* `registered`
ResetResponse(e, registered) ==
    LET out == PasswordResetRequestPost(e, registered)
    IN [status |-> out.status, detail |-> out.detail]

\* C19: the response to a password-reset request with a well-formed email
\* is the response of the run in which the email belongs to a user and of
\* the run in which it does not: status and body are identical; one token
\* (unused, expiring in 24 hours) is created and its email job enqueued
\* only when the user exists.
C19_ResetRequestNonEnumerating ==
    [][ (op'.name = "reset_request" /\ WellFormedEmail(response'.request.email)) =>
          LET e == response'.request.email
              created == (DOMAIN resetTokens') \ (DOMAIN resetTokens)
          IN /\ response'.result = ResetResponse(e, (DOMAIN passwords) \cup {e})
             /\ response'.result = ResetResponse(e, (DOMAIN passwords) \ {e})
             /\ response'.result.status = 200
             /\ passwords' = passwords
             /\ IF e \in DOMAIN passwords
                THEN /\ Cardinality(created) = 1
                     /\ \A k \in created :
                           /\ resetTokens'[k].user = e
                           /\ ~resetTokens'[k].is_used
                           /\ resetTokens'[k].expires_at = now + TokenLifetimeHours
                           /\ mailJobs' = mailJobs \cup {k}
                ELSE /\ resetTokens' = resetTokens
                     /\ mailJobs' = mailJobs
      ]_vars

\* a request for an email of no user has been answered 200 after a request
\* for a user's email created a token
C19_Witness ==
    /\ op.name = "reset_request"
    /\ response.request.email = "bob@acme.io"
    /\ "bob@acme.io" \notin DOMAIN passwords
    /\ response.result = [status |-> 200, detail |-> ResetRequestDetail]
    /\ \E k \in DOMAIN resetTokens : resetTokens[k].user = "ann@acme.io"
    /\ \A k \in DOMAIN resetTokens : resetTokens[k].user # "bob@acme.io"

\* ------------------------------------------------------------------------
\* SpecRateLimit: requests of two anonymous clients, one at a time
\* ------------------------------------------------------------------------
InitRateLimit ==
    /\ BillingInit
    /\ now = 0
    /\ op = NoOp
    /\ procs = Empty
    /\ SalesIdle
    /\ RequestsIdle
    /\ AccountsIdle
    /\ RateIdle
    /\ QuotesIdle
    /\ TasksIdle

NextRateLimit ==
    \/ \E c \in Clients, path \in RatePaths : RateLimitRequest(c, path)
    \/ RateTick

SpecRateLimit == InitRateLimit /\ [][NextRateLimit]_vars

\* the timestamps in list that lie less than `window` before current_time
RECURSIVE CountRecent(_, _, _)
CountRecent(list, current_time, window) ==
    IF list = <<>> THEN 0
    ELSE (IF current_time - Head(list) < window THEN 1 ELSE 0)
             + CountRecent(Tail(list), current_time, window)

\* C12: a login request of an anonymous client is passed exactly when fewer
\* than 5 requests of that client were passed in the 300 seconds before it;
\* so of 6 requests within 300 s the 6th is rejected, and a request that
\* comes 300 s after the first passed one is passed again. A rejected
\* request is recorded nowhere.
C12_LoginSlidingWindow ==
    [][ (op'.name = "rate_request" /\ response'.request.path = ApiLogin) =>
          LET key == CacheKey(ApiLogin, response'.request.client)
              before == CacheList(ratePassed, key)
          IN IF CountRecent(before, now, LoginWindow) < LoginLimit
             THEN /\ op'.status = 0
                  /\ CacheList(ratePassed', key) = Append(before, now)
                  /\ Len(CacheList(rateCache', key)) =
                         CountRecent(before, now, LoginWindow) + 1
             ELSE /\ op'.status = 403
                  /\ CacheList(ratePassed', key) = before
                  /\ CacheList(rateCache', key) = RecentEntries(CacheList(rateCache, key), now, LoginWindow)
                  /\ Len(CacheList(rateCache', key)) = LoginLimit
      ]_vars

\* a client whose 6th login within the window was rejected has a login
\* passed once 300 s have gone by since its first one
C12_Witness ==
    /\ op.name = "rate_request"
    /\ op.status = 0
    /\ response.request.path = ApiLogin
    /\ now = 2 * TickSeconds
    /\ LET passed == CacheList(ratePassed, CacheKey(ApiLogin, response.request.client))
       IN /\ Len(passed) = LoginLimit + 1
          /\ passed[1] = 0
          /\ passed[LoginLimit] = 0
          /\ passed[LoginLimit + 1] = now

\* ------------------------------------------------------------------------
\* SpecRateLimitConcurrent: request threads of one server process, all
\* within one window (no time passes)
\* ------------------------------------------------------------------------
InitRateLimitConcurrent ==
    /\ BillingInit
    /\ now = 0
    /\ op = NoOp
    /\ procs = Empty
    /\ SalesIdle
    /\ RequestsIdle
    /\ AccountsIdle
    /\ rateCache = Empty
    /\ ratePassed = Empty
    /\ rateProcs = [p \in Procs |-> RateIdleProc]
    /\ QuotesIdle
    /\ TasksIdle

NextRateLimitConcurrent ==
    \/ \E p \in Procs : RateEnter(p, "ip:10.0.0.1", ApiLogin)
    \/ \E p \in Procs : RateFilter(p)
    \/ \E p \in Procs : RateStore(p)
    \/ \E p \in Procs : RateCheck(p)
    \/ \E p \in Procs : RateAppend(p)

SpecRateLimitConcurrent == InitRateLimitConcurrent /\ [][NextRateLimitConcurrent]_vars

\* C20: whatever the interleaving of the requests of one client to one
\* rate-limited path, the requests passed with timestamps inside one window
\* never number more than the limit (5 logins in 300 s).
C20_LimitHoldsUnderConcurrency ==
    \A key \in DOMAIN ratePassed :
        \A t \in 0..MaxSeconds :
            CountRecent(ratePassed[key], t, LoginWindow) <= LoginLimit

\* ------------------------------------------------------------------------
\* SpecQuotations: quotations, their line items, and their conversion
\* ------------------------------------------------------------------------
InitQuotations ==
    /\ BillingInit
    /\ now = 0
    /\ op = NoOp
    /\ ExtIdle
    /\ procs = Empty
    /\ SalesIdle
    /\ RequestsIdle

NextQuotations ==
    \/ \E in \in QuotationInputs : QuotationCreate(in)
    \/ \E quote \in 1..MaxQuotations, in \in ItemInputs : QuotationItemCreate(quote, in)
    \/ \E quote \in 1..MaxQuotations : QuotationRecalculate(quote)
    \/ \E quote \in 1..MaxQuotations, status \in QuotationStatuses :
          QuotationSetStatus(quote, status)
    \/ \E quote \in 1..MaxQuotations : QuotationConvert(quote)

SpecQuotations == InitQuotations /\ [][NextQuotations]_vars

\* the line items of invoice inv in the item table rows mirror the line
\* items of quotation quote one for one
ItemsMirror(rows, inv, quote) ==
    LET made == {k \in DOMAIN rows : rows[k].invoice = inv}
        src == QuotationItemsOf(quote)
        Same(a, b) == /\ a.quantity = b.quantity
                      /\ a.unit_price = b.unit_price
                      /\ a.discount_percentage = b.discount_percentage
                      /\ a.tax_rate = b.tax_rate
                      /\ a.discount_amount = b.discount_amount
                      /\ a.tax_amount = b.tax_amount
                      /\ a.total = b.total
    IN /\ Cardinality(made) = Cardinality(src)
       /\ \E f \in [src -> made] :
             /\ \A a, b \in src : a # b => f[a] # f[b]
             /\ \A a \in src : Same(quotationItems[a], rows[f[a]])

\* C13: convert_to_invoice succeeds only from status 'accepted'; on success
\* it creates one invoice whose subtotal, discount_amount, tax_amount and
\* total_amount equal the quotation's stored values and whose line items
\* are copies of every quotation item; from any other status it fails with
\* an invalid-state error and creates no invoice and no invoice item.
C13_ConvertMirrorsQuotation ==
    [][op'.name = "convert_to_invoice" =>
         LET q == quotations[op'.id]
             inv == op'.status
         IN IF q.status = "accepted"
            THEN /\ op'.detail = "created"
                 /\ DOMAIN invoices' = DOMAIN invoices \cup {inv}
                 /\ inv \notin DOMAIN invoices
                 /\ \A k \in DOMAIN invoices : invoices'[k] = invoices[k]
                 /\ invoices'[inv].subtotal = q.subtotal
                 /\ invoices'[inv].discount_amount = q.discount_amount
                 /\ invoices'[inv].tax_amount = q.tax_amount
                 /\ invoices'[inv].total_amount = q.total_amount
                 /\ ItemsMirror(items', inv, op'.id)
            ELSE /\ op'.detail = "ValueError"
                 /\ invoices' = invoices
                 /\ items' = items]_vars

\* the error half of C13, which the code keeps: a quotation that is not
\* accepted is refused and nothing is created
ConvertRefusedUnlessAccepted ==
    [][(op'.name = "convert_to_invoice" /\ quotations[op'.id].status # "accepted") =>
         (op'.detail = "ValueError" /\ invoices' = invoices /\ items' = items)]_vars

\* the copying half of C13, which the code keeps: the new invoice's line
\* items mirror the quotation's
ConvertCopiesItems ==
    [][(op'.name = "convert_to_invoice" /\ quotations[op'.id].status = "accepted") =>
         ItemsMirror(items', op'.status, op'.id)]_vars

\* ------------------------------------------------------------------------
\* SpecDeals: deals of one customer, their stage updates and patches
\* ------------------------------------------------------------------------
InitDeals ==
    /\ BillingInit
    /\ now = 1
    /\ op = NoOp
    /\ ExtIdle
    /\ procs = Empty
    /\ leads = Empty /\ deals = Empty
    /\ customers = (1 :> [NewCustomer(DirectCustomer) EXCEPT
                             !.customer_code = NextCustomerCode(Empty),
                             !.created_at = 1])
    /\ users = [u \in UserNames |->
                  CASE u = "M" -> [role |-> "manager", reports_to |-> None]
                    [] u \in {"A", "B"} -> [role |-> "executive", reports_to |-> "M"]
                    [] u = "C" -> [role |-> "executive", reports_to |-> None]
                    [] u = "D" -> [role |-> "admin", reports_to |-> None]]
    /\ tenant = EnterpriseTenant
    /\ subscription = None
    /\ userRows = 0
    /\ leadRows = 0
    /\ response = None

NextDeals ==
    \/ DealCreate("M", 1, "A")
    \/ \E u \in {"M", "C"}, d \in 1..MaxDeals, data \in StageUpdates :
          DealUpdateStage(u, d, data)
    \/ \E d \in 1..MaxDeals, stage \in {"prospect", "closed_won", "closed_lost"} :
          DealPatch("M", d, stage)

SpecDeals == InitDeals /\ [][NextDeals]_vars

\* a lost_reason that is missing or holds nothing but blanks
BlankReason(data) ==
    ~data.has_reason \/ \A i \in 1..Len(data.lost_reason) : data.lost_reason[i] = " "

\* the deal an update_stage request is about is left as it was
DealUntouched(d) ==
    /\ deals'[d].stage = deals[d].stage
    /\ deals'[d].lost_reason = deals[d].lost_reason
    /\ deals'[d].closed_date = deals[d].closed_date

\* C14: an update_stage request with stage 'closed_lost' and a missing or
\* blank lost_reason is rejected as invalid input and leaves the deal's
\* stage, lost_reason and closed_date unchanged; the same request with a
\* non-blank lost_reason sets stage to 'closed_lost' and stores the reason.
C14_ClosedLostNeedsReason ==
    [][(op'.name = "update_stage" /\ op'.status # 404
          /\ response'.request.stage = "closed_lost") =>
         IF BlankReason(response'.request)
         THEN op'.status = 400 /\ DealUntouched(op'.id)
         ELSE /\ deals'[op'.id].stage = "closed_lost"
              /\ deals'[op'.id].lost_reason = Strip(response'.request.lost_reason)]_vars

\* the rejecting half of C14, which the code keeps
ClosedLostBlankReasonRejected ==
    [][(op'.name = "update_stage" /\ op'.status # 404
          /\ response'.request.stage = "closed_lost"
          /\ BlankReason(response'.request)) =>
         (op'.status = 400 /\ DealUntouched(op'.id))]_vars

\* the storing half of C14 for the reasons the column can hold
ClosedLostShortReasonStored ==
    [][(op'.name = "update_stage" /\ op'.status # 404
          /\ response'.request.stage = "closed_lost"
          /\ ~BlankReason(response'.request)
          /\ Len(Strip(response'.request.lost_reason)) <= LostReasonMaxLength) =>
         (/\ deals'[op'.id].stage = "closed_lost"
          /\ deals'[op'.id].lost_reason = Strip(response'.request.lost_reason))]_vars

\* C15: a deal's closed_date is null until the first save in which its
\* stage is closed_won or closed_lost, is stamped at that save, and keeps
\* that value across every later stage update and save, reopening and
\* closing again included.
C15_ClosedDateStampedOnce ==
    [][\A d \in DOMAIN deals' :
          LET before == IF d \in DOMAIN deals THEN deals[d].closed_date ELSE NoDate
              after == deals'[d].closed_date
              savedClosed == /\ op'.name \in {"update_stage", "deal_patch"}
                             /\ op'.id = d
                             /\ op'.detail = "saved"
                             /\ deals'[d].stage \in ClosedStages
          IN /\ before # NoDate => after = before
             /\ (before = NoDate /\ after # NoDate) => (savedClosed /\ after = now')
             /\ savedClosed => after # NoDate]_vars

\* a deal closed, reopened and saved closed again later than its stamp
C15_Witness ==
    /\ op.name \in {"update_stage", "deal_patch"}
    /\ op.detail = "saved"
    /\ op.id \in DOMAIN deals
    /\ deals[op.id].stage \in ClosedStages
    /\ deals[op.id].closed_date # NoDate
    /\ deals[op.id].closed_date + 2 <= now

\* ------------------------------------------------------------------------
\* SpecTasks: root tasks and the instances create_next_recurrence makes
\* ------------------------------------------------------------------------
InitTasks ==
    /\ BillingInit
    /\ now = 0
    /\ op = NoOp
    /\ ExtIdle
    /\ procs = Empty
    /\ SalesIdle
    /\ RequestsIdle

NextTasks ==
    \/ \E in \in TaskInputs : TaskCreate(in)
    \/ \E t \in 1..MaxTasks : CreateNextRecurrence(t)

SpecTasks == InitTasks /\ [][NextTasks]_vars

\* the task a series started from, found along generated_from
RECURSIVE Origin(_, _)
Origin(rows, t) ==
    IF rows[t].generated_from = NoRow THEN t ELSE Origin(rows, rows[t].generated_from)

\* how many create_next_recurrence calls lie between the root and task t
RECURSIVE Generation(_, _)
Generation(rows, t) ==
    IF rows[t].generated_from = NoRow THEN 0
    ELSE 1 + Generation(rows, rows[t].generated_from)

\* a weekly recurring root whose recurrence ends three weeks after its due date
ThreeWeekRoot(task) ==
    /\ task.generated_from = NoRow
    /\ task.is_recurring
    /\ task.recurrence_pattern = "weekly"
    /\ task.due_date # NoDue
    /\ task.recurrence_end_date = DateOf(task.due_date) + 3 * WeeklyDays

\* C16: from a weekly recurring task whose recurrence_end_date is three
\* weeks after its due date, create_next_recurrence on the task and then on
\* each returned instance returns three new tasks, due 7, 14 and 21 days
\* after the root, and none on the fourth call; in general a call on a
\* recurring task with a due date and a known pattern returns a new task
\* exactly when the next due date does not fall after recurrence_end_date.
C16_RecurrenceTerminates ==
    [][op'.name = "create_next_recurrence" =>
         LET t == op'.id
             self == tasks[t]
             root == tasks[Origin(tasks, t)]
             n == Generation(tasks, t)
             returned == op'.status
             next_due == self.due_date + PatternDays(self.recurrence_pattern) * HoursPerDay
         IN /\ ThreeWeekRoot(root) =>
                 IF n < 3
                 THEN /\ returned \notin DOMAIN tasks
                      /\ DOMAIN tasks' = DOMAIN tasks \cup {returned}
                      /\ tasks'[returned].due_date =
                            root.due_date + (n + 1) * WeeklyDays * HoursPerDay
                 ELSE returned = NoRow /\ tasks' = tasks
            /\ (self.is_recurring /\ self.due_date # NoDue
                  /\ self.recurrence_pattern \in {"daily", "weekly", "monthly"}) =>
                 IF self.recurrence_end_date # NoEnd
                      /\ DateOf(next_due) > self.recurrence_end_date
                 THEN returned = NoRow /\ tasks' = tasks
                 ELSE /\ DOMAIN tasks' = DOMAIN tasks \cup {returned}
                      /\ returned \notin DOMAIN tasks
                      /\ tasks'[returned].due_date = next_due]_vars

\* the fourth call of the chain has returned none: the third instance of a
\* three-week root exists and the last call, on it, created nothing
C16_Witness ==
    /\ op.name = "create_next_recurrence"
    /\ op.status = NoRow
    /\ op.id \in DOMAIN tasks
    /\ ThreeWeekRoot(tasks[Origin(tasks, op.id)])
    /\ Generation(tasks, op.id) = 3

\* C17: every instance made by create_next_recurrence has the root of its
\* series as parent_task, never an intermediate instance, and the root's own
\* parent_task stays empty.
C17_ParentIsRoot ==
    \A t \in DOMAIN tasks :
        IF tasks[t].generated_from = NoRow
        THEN tasks[t].parent_task = NoRow
        ELSE /\ tasks[t].parent_task = Origin(tasks, t)
             /\ tasks[tasks[t].parent_task].generated_from = NoRow

\* an instance made from another instance
C17_Witness ==
    \E t \in DOMAIN tasks :
        /\ tasks[t].generated_from # NoRow
        /\ tasks[tasks[t].generated_from].generated_from # NoRow
        /\ tasks[t].parent_task # tasks[t].generated_from

\* ------------------------------------------------------------------------
\* SpecPermissions: users of every role and the permissions served for them
\* ------------------------------------------------------------------------
PermissionUsers == {"M", "A", "D"}

InitPermissions ==
    /\ BillingInit
    /\ now = 0
    /\ op = NoOp
    /\ ExtIdle
    /\ procs = Empty
    /\ leads = Empty /\ customers = Empty /\ deals = Empty
    /\ \E roles \in [PermissionUsers -> ROLE_CHOICES] :
          users = [u \in PermissionUsers |-> [role |-> roles[u], reports_to |-> None]]
    /\ RequestsIdle

NextPermissions ==
    \/ \E u \in PermissionUsers : UserPermissions(u)
    \/ \E u \in PermissionUsers, role \in ROLE_CHOICES : UserSetRole(u, role)

SpecPermissions == InitPermissions /\ [][NextPermissions]_vars

\* C18: get_permissions returns, for each role, exactly the action set of
\* the permission table for every object type (an absent entry and an empty
\* one both grant nothing); for role manager the invoices entry is create,
\* read, delete and send, and there is no billing entry.
C18_PermissionTable ==
    op.name = "get_permissions" =>
        LET role == op.detail
            granted == response.result
            None_ == {}
            CRU == {"create", "read", "update"}
            Row(us, le, cu, de, pr, inv, re, se, bi) ==
                [users |-> us, leads |-> le, customers |-> cu, deals |-> de,
                 products |-> pr, invoices |-> inv, reports |-> re, settings |-> se,
                 billing |-> bi]
            table ==
                CASE role \in {"super_admin", "admin"} ->
                       Row(CRUD, CRUD \cup {"assign"}, CRUD, CRUD, CRUD, CRUD \cup {"send"},
                           {"view", "export"}, {"view", "update"}, {"view", "update"})
                  [] role = "manager" ->
                       Row({"read"}, CRUD \cup {"assign"}, CRUD, CRUD, {"read"},
                           {"create", "read", "delete", "send"},
                           {"view", "export"}, {"view"}, None_)
                  [] role = "executive" ->
                       Row(None_, CRU, CRU, CRU, {"read"}, {"create", "read"},
                           {"view"}, None_, None_)
                  [] role = "viewer" ->
                       Row(None_, {"read"}, {"read"}, {"read"}, {"read"}, {"read"},
                           {"view"}, None_, None_)
            Granted(object) == IF object \in DOMAIN granted THEN granted[object] ELSE {}
        IN /\ \A object \in DOMAIN table : Granted(object) = table[object]
           /\ DOMAIN granted \subseteq DOMAIN table
           /\ role = "manager" => "billing" \notin DOMAIN granted

\* ------------------------------------------------------------------------
\* SpecAutoAssign: lead creation in a tenant whose settings choose the
\* assignee
\* ------------------------------------------------------------------------
InitAutoAssign ==
    /\ BillingInit
    /\ now = 0
    /\ op = NoOp
    /\ ExtIdle
    /\ procs = Empty
    /\ leads = Empty /\ customers = Empty /\ deals = Empty
    /\ \E inactive \in SUBSET {"B", "C"} :
          users = [u \in UserNames |->
                     [role |-> CASE u = "M" -> "manager"
                                 [] u = "D" -> "admin"
                                 [] OTHER -> "executive",
                      reports_to |-> IF u \in {"A", "B"} THEN "M" ELSE None,
                      is_active |-> u \notin inactive]]
    /\ \E auto \in BOOLEAN, method \in AssignmentMethods :
          tenant = [max_leads |-> -1, current_leads |-> 0,
                    auto_assign_leads |-> auto, lead_assignment_method |-> method]
    /\ subscription = None
    /\ userRows = 0
    /\ leadRows = 0
    /\ response = None

NextAutoAssign ==
    \/ \E in \in LeadInputs, requested \in {"A", None} : LeadAutoCreate("D", in, requested)
    \/ \E l \in 1..MaxLeads, st \in LeadStatuses : LeadUpdate("M", l, st)

SpecAutoAssign == InitAutoAssign /\ [][NextAutoAssign]_vars

\* C21: with auto-assignment enabled and method round_robin a lead creation
\* (below the lead limit, with an eligible user) creates the lead assigned
\* to an active manager or executive, and with two or more eligible users
\* not to the user the lead created just before it was assigned to.
C21_RoundRobinRotates ==
    [][(op'.name = "lead_auto_create" /\ tenant.auto_assign_leads
          /\ tenant.lead_assignment_method = "round_robin" /\ SalesUsers # {}) =>
         LET previous == Cardinality(DOMAIN leads)
             created == previous + 1
         IN /\ op'.status = 201
            /\ DOMAIN leads' = DOMAIN leads \cup {created}
            /\ leads'[created].assigned_to \in SalesUsers
            /\ (previous >= 1 /\ Cardinality(SalesUsers) >= 2) =>
                  leads'[created].assigned_to # leads[previous].assigned_to]_vars

\* ------------------------------------------------------------------------
\* SpecReminders: reminders marked as sent and as read while time passes
\* ------------------------------------------------------------------------
InitReminders ==
    /\ BillingInit
    /\ now = 1
    /\ op = NoOp
    /\ ExtIdle
    /\ procs = Empty
    /\ SalesIdle
    /\ RequestsIdle

NextReminders ==
    \/ ReminderCreate
    \/ \E r \in 1..MaxReminders : MarkAsSent(r)
    \/ \E r \in 1..MaxReminders : MarkAsRead(r)
    \/ Tick

SpecReminders == InitReminders /\ [][NextReminders]_vars

\* C22: mark_as_sent and mark_as_read are idempotent: applied to a reminder
\* already marked, either leaves its flags and its sent_at / read_at
\* timestamps as the first application set them.
C22_MarkingIdempotent ==
    [][/\ (op'.name = "mark_as_sent" /\ reminders[op'.id].is_sent) =>
             reminders'[op'.id] = reminders[op'.id]
       /\ (op'.name = "mark_as_read" /\ reminders[op'.id].is_read) =>
             reminders'[op'.id] = reminders[op'.id]]_vars

\* C23: for any interleaving of Payment creations against one invoice, the
\* invoice's persisted amount_paid equals the sum of the amounts of the
\* payments recorded for it and amount_due equals total_amount minus that
\* sum. (Creations handled one after another are one such interleaving.)
C23_PaymentsAddUp ==
    \A i \in DOMAIN invoices :
        LET recorded == {p \in DOMAIN payments : payments[p].invoice = i}
            sum == SumOver(payments, recorded, "amount")
        IN /\ invoices[i].amount_paid = sum
           /\ recorded # {} => invoices[i].amount_due = invoices[i].total_amount - sum

\* ------------------------------------------------------------------------
\* SpecAccountsConcurrent: confirm requests handled by concurrent workers
\* ------------------------------------------------------------------------
InitAccountsConcurrent ==
    /\ BillingInit
    /\ now = 0
    /\ op = NoOp
    /\ procs = [p \in Procs |-> ConfirmIdle]
    /\ SalesIdle
    /\ RequestsIdle
    /\ passwords = [e \in {"ann@acme.io", "bob@acme.io"} |-> "old-password"]
    /\ resetTokens = Empty
    /\ mailJobs = {}
    /\ RateIdle
    /\ QuotesIdle
    /\ TasksIdle

NextAccountsConcurrent ==
    \/ \E e \in EmailInputs : PasswordResetRequest(e)
    \/ \E p \in Procs, value \in 0..MaxTokens, pw \in PasswordInputs :
          ConfirmValidate(p, value, pw)
    \/ \E p \in Procs : ConfirmSave(p)
    \/ Tick

SpecAccountsConcurrent == InitAccountsConcurrent /\ [][NextAccountsConcurrent]_vars

\* C24: of the confirm requests carrying one valid token, whatever their
\* interleaving, at most one sets the user's password.
C24_TokenSpentOnce ==
    \A k \in DOMAIN resetTokens :
        Cardinality({p \in DOMAIN procs : procs[p].pc = "done" /\ procs[p].token = k}) <= 1

\* C25: in every state reached through the deal API a deal whose stage is
\* 'closed_lost' has a non-blank lost_reason.
C25_ClosedLostHasReason ==
    \A d \in DOMAIN deals :
        deals[d].stage = "closed_lost" => Strip(deals[d].lost_reason) # <<>>

\* C26: at most one Customer is ever created from a lead: a convert request
\* on a lead that was converted before (converted_to_customer is set), after
\* whatever updates of its fields, creates no further Customer.
C26_ConvertedOnce ==
    [][(op'.name = "convert" /\ op'.id \in DOMAIN leads
          /\ leads[op'.id].converted_to_customer # NoRow) =>
         customers' = customers]_vars

\* C27: conversion with create_deal requested is all-or-nothing: a convert
\* request whose Deal creation fails leaves no Customer created and does not
\* leave the lead in status 'converted'.
C27_ConvertAllOrNothing ==
    [][(op'.name = "convert" /\ op'.detail = "deal_failed") =>
         /\ customers' = customers
         /\ leads' = leads
         /\ deals' = deals]_vars

\* C28: an invoice whose amount_paid is 0 is never given status 'paid' by
\* calculate_totals: an invoice in status 'paid' has a positive amount_paid.
C28_PaidOnlyAfterPayment ==
    \A inv \in DOMAIN invoices :
        invoices[inv].status = "paid" => invoices[inv].amount_paid > 0

\* C29: after any sequence of convert_to_invoice calls at most one Invoice
\* references a quotation.
C29_OneInvoicePerQuotation ==
    \A quote \in DOMAIN quotations :
        Cardinality({inv \in DOMAIN invoices : invoices[inv].quotation = quote}) <= 1

\* ------------------------------------------------------------------------
\* SpecBulkAssign: leads created for A (who reports to the manager M) and
\* for C (who does not), and bulk assignments requested by M, C and D
\* ------------------------------------------------------------------------
NextBulkAssign ==
    \/ \E in \in LeadInputs, a \in Assignees : LeadCreate("D", in, a)
    \/ \E u \in {"M", "C", "D"}, ids \in SUBSET (1..(MaxLeads + 1)), a \in {"A", "B", "D"} :
           LeadBulkAssign(u, ids, a)

SpecBulkAssign == InitSales /\ [][NextBulkAssign]_vars

\* C30: bulk_assign changes assigned_to and assigned_date only of leads that
\* are named in the request and are in the caller's visible lead set; every
\* other lead is left unchanged.
C30_BulkAssignFrame ==
    [][op'.name = "bulk_assign" =>
         \A l \in DOMAIN leads :
             (l \notin op'.detail.ids \/ l \notin VisibleLeads(op'.detail.user)) =>
                 leads'[l] = leads[l]]_vars

====
